---- MODULE Spec2Model ----
(***************************************************************************)
(* Model of the core of the Prolog interpreter: terms and environments     *)
(* (core/types.py), unification with a trail (solver/unify.py), the clause *)
(* store with its first-argument index (solver/indexer.py), the builtin    *)
(* registry (prolog_builtins/registry.py, builtins/core.py,                *)
(* prolog_builtins/arith.py) as main.py sets it up, the SLD resolver       *)
(* (solver/engine.py) and the parser of terms (parse/parser.py).           *)
(***************************************************************************)
EXTENDS Integers, Sequences, FiniteSets, TLC

VARIABLES
  \* --- unification harness: one Env and one Trail driven by unify calls
  uenv,        \* Env.bindings of the environment under test
  utrail,      \* Trail.stack of the trail under test
  uenv0,       \* bindings at the moment the trail under test was created
  uocc,        \* the occurs_check argument used by the harness
  ucalls,      \* number of unify calls made so far
  ulast,       \* record of the last unify call and of its mirrored call
  \* --- clause store
  kb,          \* KnowledgeBase: clauses and indices
  kbmode,      \* "index": clauses are added freely; "engine": Engine.load
  \* --- resolver
  occurs_check,\* Engine.occurs_check
  registry,    \* GLOBAL_REGISTRY.builtins (set of <<name, arity>>)
  scen,        \* index of the scenario (knowledge base and query) in use
  toload,      \* clauses Engine.load has not added yet
  pc,          \* position of the generator returned by Engine.query
  stack,       \* activation frames of Engine._solve, innermost last
  envs,        \* heap of Env objects (sequence of bindings)
  trails,      \* heap of Trail objects (sequence of stacks)
  yielded,     \* handles of the environments yielded so far
  selections,  \* log of clause selections: clause and head variable ids
  dispatched,  \* log of the selected goals: builtin calls and clause lookups
  run,         \* number of the Engine.query call in progress (0: none)
  prev,        \* how the previous Engine.query call ended and what it yielded
  derivations, \* for each yielded environment, the candidates chosen on its way
  \* --- reading and evaluating one arithmetic query
  atext,       \* the tokens of the query text (empty: the goal is given)
  agoal,       \* the goal X is E
  apc,         \* how far the reading and the three calls have come
  ares         \* outcomes of X is E, of E =:= E and of X =:= E

vars == <<uenv, utrail, uenv0, uocc, ucalls, ulast, kb, kbmode,
          occurs_check, registry, scen, toload, pc, stack, envs, trails,
          yielded, selections, dispatched, run, prev, derivations, atext, agoal,
          apc, ares>>

uvars == <<uenv, utrail, uenv0, uocc, ucalls, ulast>>
evars == <<occurs_check, registry, scen, toload, pc, stack, envs, trails,
           yielded, selections, dispatched, run, prev, derivations>>
avars == <<atext, agoal, apc, ares>>

-----------------------------------------------------------------------------
(* Bounds of the model *)

\* depth at which a recursion of unify / apply counts as not terminating
MaxRec == 12
\* number of unify calls the unification harness makes
MaxCalls == 2
\* number of clauses added to the store in the index specification
MaxClauses == 4
\* depth of the _solve activation stack at which the recursion limit of the
\* interpreter is reached (sys.getrecursionlimit(), 1000 by default)
MaxDepth == 12
\* number of times the same query is run on one engine
MaxRuns == 2

-----------------------------------------------------------------------------
(* Terms: core/types.py *)

Atom(n) == [k |-> "atom", name |-> n]
Number(v) == [k |-> "num", value |-> v]
Variable(n, i) == [k |-> "var", name |-> n, id |-> i]
Compound(f, as) == [k |-> "cmp", functor |-> f, args |-> as]

isVariable(t) == t.k = "var"
isAtom(t) == t.k = "atom"
isNumber(t) == t.k = "num"
isCompound(t) == t.k = "cmp"

arity(t) == Len(t.args)

\* List(items): '.'/2 cells ending in the atom []
RECURSIVE List(_)
List(items) ==
  IF items = <<>> THEN Atom("[]")
  ELSE Compound(".", <<Head(items), List(Tail(items))>>)

Clause(h, b) == [head |-> h, body |-> b]

\* Env: bindings by variable id
EmptyBindings == [i \in {} |-> Atom("[]")]
EnvGet(b, v) == IF v.id \in DOMAIN b THEN <<b[v.id]>> ELSE <<>>
EnvSet(b, v, t) == [i \in (DOMAIN b) \cup {v.id} |-> IF i = v.id THEN t ELSE b[i]]
EnvCopy(b) == b

-----------------------------------------------------------------------------
(* Unification: solver/unify.py *)

TrailPush(st, v) == Append(st, v.id)

\* Trail.unwind: pop every id and delete its binding; the result is the pair
\* (bindings, stack)
RECURSIVE TrailUnwind(_, _)
TrailUnwind(st, b) ==
  IF st = <<>> THEN [env |-> b, trail |-> st]
  ELSE LET vid == st[Len(st)]
           rest == SubSeq(st, 1, Len(st) - 1)
       IN TrailUnwind(rest, IF vid \in DOMAIN b
                            THEN [i \in (DOMAIN b) \ {vid} |-> b[i]]
                            ELSE b)

RECURSIVE deref(_, _)
deref(term, b) ==
  IF isVariable(term) /\ term.id \in DOMAIN b THEN deref(b[term.id], b) ELSE term

occurs_in_top(v, t, b) ==
  LET d == deref(t, b) IN isVariable(d) /\ v.id = d.id

RECURSIVE occurs_in(_, _, _)
occurs_in(v, t, b) ==
  LET d == deref(t, b) IN
  IF isVariable(d) THEN v.id = d.id
  ELSE IF isCompound(d) THEN \E i \in 1..Len(d.args) : occurs_in(v, d.args[i], b)
  ELSE FALSE

bindNoPush(v, value, b, st) == [st |-> "true", env |-> EnvSet(b, v, value), trail |-> st]

bind(v, value, b, st) == [st |-> "true", env |-> EnvSet(b, v, value), trail |-> TrailPush(st, v)]

\* unify returns its verdict together with the environment and trail it has
\* mutated: st is "true", "false", or "overflow" when the recursion does not
\* end (RecursionError) after fuel nested calls.
RECURSIVE unifyF(_, _, _, _, _, _)
RECURSIVE unifyArgs(_, _, _, _, _, _, _)
unifyF(t1, t2, b, st, occ, fuel) ==
  IF fuel = 0 THEN [st |-> "overflow", env |-> b, trail |-> st] ELSE
  LET d1 == deref(t1, b)
      d2 == deref(t2, b)
  IN
  IF isVariable(d1) THEN
    IF isVariable(d2) /\ d1.id = d2.id THEN [st |-> "true", env |-> b, trail |-> st]
    ELSE IF occ /\ occurs_in(d1, d2, b) THEN [st |-> "false", env |-> b, trail |-> st]
    ELSE bind(d1, d2, b, st)
  ELSE IF isVariable(d2) THEN
    IF occ /\ occurs_in(d2, d1, b) THEN [st |-> "false", env |-> b, trail |-> st]
    ELSE bind(d2, d1, b, st)
  ELSE IF isAtom(d1) /\ isAtom(d2) THEN
    [st |-> IF d1.name = d2.name THEN "true" ELSE "false", env |-> b, trail |-> st]
  ELSE IF isNumber(d1) /\ isNumber(d2) THEN
    [st |-> IF d1.value = d2.value THEN "true" ELSE "false", env |-> b, trail |-> st]
  ELSE IF isCompound(d1) /\ isCompound(d2) THEN
    IF d1.functor # d2.functor \/ Len(d1.args) # Len(d2.args)
    THEN [st |-> "false", env |-> b, trail |-> st]
    ELSE unifyArgs(d1.args, d2.args, 1, b, st, occ, fuel - 1)
  ELSE [st |-> "false", env |-> b, trail |-> st]

unifyArgsFirstOnly(as, bs, i, b, st, occ, fuel) ==
  IF as = <<>> THEN [st |-> "true", env |-> b, trail |-> st]
  ELSE unifyF(as[1], bs[1], b, st, occ, fuel)

\* the loop over zip(t1.args, t2.args): the first pair that does not unify
\* ends the call and keeps the bindings made so far
unifyArgs(as, bs, i, b, st, occ, fuel) ==
  IF i > Len(as) THEN [st |-> "true", env |-> b, trail |-> st]
  ELSE LET r == unifyF(as[i], bs[i], b, st, occ, fuel) IN
       IF r.st = "true" THEN unifyArgs(as, bs, i + 1, r.env, r.trail, occ, fuel)
       ELSE r

unifyLeftVariableOnly(t1, t2, b, st, occ) ==
  IF ~isVariable(deref(t1, b)) /\ isVariable(deref(t2, b))
  THEN [st |-> "false", env |-> b, trail |-> st]
  ELSE unifyF(t1, t2, b, st, occ, MaxRec)

unifyWithoutNumbers(t1, t2, b, st, occ) ==
  IF isNumber(deref(t1, b)) /\ isNumber(deref(t2, b))
  THEN [st |-> "false", env |-> b, trail |-> st]
  ELSE unifyF(t1, t2, b, st, occ, MaxRec)

unifyBindsSameVariable(t1, t2, b, st, occ) ==
  IF /\ isVariable(deref(t1, b)) /\ isVariable(deref(t2, b))
     /\ deref(t1, b).id = deref(t2, b).id
  THEN bind(deref(t1, b), deref(t2, b), b, st)
  ELSE unifyF(t1, t2, b, st, occ, MaxRec)

unifyRestoring(t1, t2, b, st, occ) ==
  IF unifyF(t1, t2, b, st, occ, MaxRec).st = "false"
  THEN [st |-> "false", env |-> b, trail |-> st]
  ELSE unifyF(t1, t2, b, st, occ, MaxRec)

unify(t1, t2, b, st, occ) == unifyF(t1, t2, b, st, occ, MaxRec)

\* apply: the fully substituted copy of a term; Overflow stands for a
\* recursion that does not end
Overflow == [k |-> "overflow"]

RECURSIVE applyF(_, _, _)
applyF(b, term, fuel) ==
  IF fuel = 0 THEN Overflow ELSE
  LET d == deref(term, b) IN
  IF isCompound(d)
  THEN LET as == [i \in 1..Len(d.args) |-> applyF(b, d.args[i], fuel - 1)] IN
       IF \E i \in 1..Len(d.args) : as[i] = Overflow
       THEN Overflow
       ELSE Compound(d.functor, as)
  ELSE d

apply(b, term) == applyF(b, term, MaxRec)

-----------------------------------------------------------------------------
(* Clause store and first-argument index: solver/indexer.py *)

\* Python dicts keep the insertion order of their keys: a dict is the
\* sequence of its items
DictHas(d, key) == \E i \in 1..Len(d) : d[i].key = key
DictPos(d, key) == CHOOSE i \in 1..Len(d) : d[i].key = key
DictGet(d, key, default) == IF DictHas(d, key) THEN d[DictPos(d, key)].val ELSE default
DictSet(d, key, val) ==
  IF DictHas(d, key) THEN [d EXCEPT ![DictPos(d, key)].val = val]
  ELSE Append(d, [key |-> key, val |-> val])

Wildcard == <<"*", "_">>

first_arg_key_no_compound(head) ==
  IF head.args # <<>> /\ isAtom(head.args[1]) THEN <<"a", head.args[1].name>>
  ELSE Wildcard

first_arg_key(head) ==
  IF head.args # <<>> /\ isCompound(head.args[1]) THEN <<".", "_">>
  ELSE IF head.args # <<>> /\ isAtom(head.args[1]) THEN <<"a", head.args[1].name>>
  ELSE Wildcard

\* Index: by_key, a dict from first-argument key to the list of clauses
EmptyIndex == <<>>

IndexAddFront(by_key, clause) ==
  LET key == first_arg_key(clause.head)
  IN DictSet(by_key, key, <<clause>> \o DictGet(by_key, key, <<>>))

IndexAdd(by_key, clause) ==
  LET key == first_arg_key(clause.head)
  IN DictSet(by_key, key, Append(DictGet(by_key, key, <<>>), clause))

\* every bucket of by_key, in the order of by_key.values()
RECURSIVE AllBuckets(_)
AllBuckets(by_key) ==
  IF by_key = <<>> THEN <<>> ELSE Head(by_key).val \o AllBuckets(Tail(by_key))

IndexCandidatesKeyOnly(by_key, head) ==
  LET key == first_arg_key(head) IN
  IF key = Wildcard THEN AllBuckets(by_key)
  ELSE DictGet(by_key, key, <<>>)

IndexCandidates(by_key, head) ==
  LET key == first_arg_key(head) IN
  IF key = Wildcard THEN AllBuckets(by_key)
  ELSE DictGet(by_key, key, <<>>) \o DictGet(by_key, Wildcard, <<>>)

\* KnowledgeBase: clauses (dict predicate -> list) and indices (dict
\* predicate -> Index)
EmptyKB == [clauses |-> <<>>, indices |-> <<>>]

PredKeyOf(t) == <<t.functor, arity(t)>>

add_clause(k, clause) ==
  LET key == PredKeyOf(clause.head) IN
  [clauses |-> DictSet(k.clauses, key, Append(DictGet(k.clauses, key, <<>>), clause)),
   indices |-> DictSet(k.indices, key,
                       IndexAdd(DictGet(k.indices, key, EmptyIndex), clause))]

get_candidates(k, goal) ==
  LET key == PredKeyOf(goal) IN
  IF ~DictHas(k.indices, key) THEN <<>>
  ELSE IndexCandidates(DictGet(k.indices, key, EmptyIndex), goal)

RECURSIVE SumLen(_)
SumLen(d) == IF d = <<>> THEN 0 ELSE Len(Head(d).val) + SumLen(Tail(d))

NumClauses(k) == SumLen(k.clauses)

-----------------------------------------------------------------------------
(* Variable utilities: utils/helpers.py.  Variable is a dataclass whose id  *)
(* field is declared compare=False, so == and hash() of two Variable        *)
(* objects look at the name alone; a Python set keeps one of two equal      *)
(* objects.                                                                 *)

\* Variable.__eq__
VariableEq(v, w) == v.name = w.name

\* set.update(other): the elements of other that equal no element of the set
\* are added
SetUpdate(S, T) == S \cup {v \in T : \A w \in S : ~VariableEq(v, w)}

\* the first n elements of a sequence of sets, folded with SetUpdate
RECURSIVE UpdateAll(_, _)
UpdateAll(sets, n) ==
  IF n = 0 THEN {} ELSE SetUpdate(UpdateAll(sets, n - 1), sets[n])

RECURSIVE extract_variables(_)
extract_variables(term) ==
  IF isVariable(term) THEN {term}
  ELSE IF isCompound(term)
  THEN UpdateAll([i \in 1..Len(term.args) |-> extract_variables(term.args[i])],
                 Len(term.args))
  ELSE {}

\* fresh_var(prefix): the name is the prefix followed by the next value of
\* _var_counter, the id the next value of _var_id_counter
fresh_var(prefix, counter, id) == Variable(prefix \o ToString(counter + 1), id + 1)

\* rename_variables(term, var_map); counter and id are the two module
\* counters, threaded through the calls
RECURSIVE rename_variables(_, _, _, _)
RECURSIVE rename_arguments(_, _, _, _)
rename_variables(term, var_map, counter, id) ==
  IF isVariable(term)
  THEN IF ~DictHas(var_map, term.id)
       THEN [term |-> fresh_var(term.name, counter, id),
             var_map |-> DictSet(var_map, term.id, fresh_var(term.name, counter, id)),
             counter |-> counter + 1, id |-> id + 1]
       ELSE [term |-> DictGet(var_map, term.id, term), var_map |-> var_map,
             counter |-> counter, id |-> id]
  ELSE IF isCompound(term)
  THEN LET r == rename_arguments(term.args, var_map, counter, id)
       IN [term |-> Compound(term.functor, r.args), var_map |-> r.var_map,
           counter |-> r.counter, id |-> r.id]
  ELSE [term |-> term, var_map |-> var_map, counter |-> counter, id |-> id]
rename_arguments(args, var_map, counter, id) ==
  IF args = <<>>
  THEN [args |-> <<>>, var_map |-> var_map, counter |-> counter, id |-> id]
  ELSE LET h == rename_variables(Head(args), var_map, counter, id)
           t == rename_arguments(Tail(args), h.var_map, h.counter, h.id)
       IN [args |-> <<h.term>> \o t.args, var_map |-> t.var_map,
           counter |-> t.counter, id |-> t.id]

-----------------------------------------------------------------------------
(* Unification harness: unify, Trail() and Trail.unwind applied to one      *)
(* environment that starts empty, so every environment it reaches is one    *)
(* that calls of unify can produce.                                         *)

UX == Variable("X", 1)
UY == Variable("Y", 2)
\* a second Variable object named X, as a later clause or query has
UX3 == Variable("X", 3)

UTerms ==
  { UX, UY, Atom("a"), Number(1),
    Compound("f", <<UX>>), Compound("f", <<UY>>),
    Compound("g", <<UX, UY>>), Compound("g", <<UY, Atom("a")>>),
    Compound("g", <<Atom("a"), Atom("b")>>),
    Compound("g", <<Compound("f", <<UY>>), UX>>) }

NoCall == [op |-> "none", t1 |-> Atom("a"), t2 |-> Atom("a"), st |-> "true",
           pre |-> EmptyBindings, pretrail |-> <<>>,
           mirror |-> [st |-> "true", env |-> EmptyBindings, trail |-> <<>>]]

UInit ==
  /\ uenv = EmptyBindings
  /\ utrail = <<>>
  /\ uenv0 = EmptyBindings
  /\ uocc \in BOOLEAN
  /\ ucalls = 0
  /\ ulast = NoCall

\* unify(t1, t2, env, trail, occurs_check) on the environment under test; the
\* mirrored call unify(t2, t1, ...) runs on a copy of the same environment
UnifyCall(t1, t2) ==
  /\ ucalls < MaxCalls
  /\ LET r == unify(t1, t2, uenv, utrail, uocc)
         m == unify(t2, t1, EnvCopy(uenv), <<>>, uocc)
     IN /\ uenv' = r.env
        /\ utrail' = r.trail
        /\ ulast' = [op |-> "unify", t1 |-> t1, t2 |-> t2, st |-> r.st,
                     pre |-> uenv, pretrail |-> utrail, mirror |-> m]
  /\ ucalls' = ucalls + 1
  /\ UNCHANGED <<uenv0, uocc>>

\* Trail(): a new, empty trail for the environment as it is now
NewTrail ==
  /\ ulast.op = "unify"
  /\ utrail # <<>>
  /\ utrail' = <<>>
  /\ uenv0' = uenv
  /\ ulast' = [NoCall EXCEPT !.op = "trail"]
  /\ UNCHANGED <<uenv, uocc, ucalls>>

\* trail.unwind(env)
Unwind ==
  /\ ulast.op = "unify"
  /\ LET r == TrailUnwind(utrail, uenv)
     IN /\ uenv' = r.env
        /\ utrail' = r.trail
  /\ ulast' = [NoCall EXCEPT !.op = "unwind", !.st = ulast.st, !.pre = uenv,
                              !.pretrail = utrail]
  /\ UNCHANGED <<uenv0, uocc, ucalls>>

\* first calls on the two variables named X
SameNamePairs ==
  { <<UX, UX3>>, <<UX3, UX>>,
    <<Compound("g", <<UX, UX3>>), Compound("g", <<Atom("a"), UX3>>)>> }

\* the terms whose variables are collected and renamed
CollectTerms ==
  { UX3, Atom("a"), Compound("f", <<UX, UX3>>), Compound("g", <<UX, UY>>),
    Compound("g", <<UX, Compound("f", <<UX>>)>>),
    Compound("g", <<Compound("f", <<UX3>>), UX>>) }

\* extract_variables(t) and rename_variables(t), the first variable renamed
\* since the three variables of the harness were made
CollectVariables(t) ==
  /\ ulast' = [op |-> "collect", t1 |-> t,
               t2 |-> rename_variables(t, <<>>, 0, 3).term, st |-> "true",
               pre |-> uenv, pretrail |-> utrail, mirror |-> NoCall.mirror,
               vars |-> extract_variables(t)]
  /\ UNCHANGED <<uenv, utrail, uenv0, uocc, ucalls>>

EngineIdle ==
  /\ occurs_check = FALSE /\ registry = {} /\ scen = 0 /\ toload = <<>>
  /\ pc = "off" /\ stack = <<>> /\ envs = <<>> /\ trails = <<>>
  /\ yielded = <<>> /\ selections = <<>>
  /\ dispatched = <<>> /\ run = 0 /\ prev = [end |-> "none", sols |-> <<>>]
  /\ derivations = <<>>

\* no arithmetic query is read or called
Pending == [out |-> "pending", env |-> EmptyBindings, trail |-> <<>>]
NoGoal == Atom("none")

ArithIdle ==
  /\ atext = <<>> /\ agoal = NoGoal /\ apc = "off"
  /\ ares = [is |-> Pending, eq |-> Pending, chk |-> Pending]

UnifyInit == UInit /\ EngineIdle /\ ArithIdle /\ kb = EmptyKB /\ kbmode = "off"

\* ground terms unified with themselves on the empty environment
GroundTerms ==
  { Atom("a"), Number(1), Compound("c", <<>>), Compound("f", <<Atom("a")>>),
    Compound("g", <<Atom("a"), Atom("b")>>),
    Compound("g", <<Compound("f", <<Atom("a")>>), Compound("f", <<Number(1)>>)>>),
    List(<<Number(1), Number(2)>>) }

UnifyNext ==
  \/ \E t \in GroundTerms :
        ucalls = 0 /\ UnifyCall(t, t) /\ UNCHANGED <<kb, kbmode>> /\ UNCHANGED evars
        /\ UNCHANGED avars
  \/ \E t1 \in UTerms, t2 \in UTerms :
        UnifyCall(t1, t2) /\ UNCHANGED <<kb, kbmode>> /\ UNCHANGED evars
        /\ UNCHANGED avars
  \/ \E p \in SameNamePairs :
        ucalls = 0 /\ UnifyCall(p[1], p[2]) /\ UNCHANGED <<kb, kbmode>>
        /\ UNCHANGED evars /\ UNCHANGED avars
  \/ \E t \in CollectTerms :
        ucalls = 0 /\ CollectVariables(t) /\ UNCHANGED <<kb, kbmode>> /\ UNCHANGED evars
        /\ UNCHANGED avars
  \/ NewTrail /\ UNCHANGED <<kb, kbmode>> /\ UNCHANGED evars
        /\ UNCHANGED avars
  \/ Unwind /\ UNCHANGED <<kb, kbmode>> /\ UNCHANGED evars
        /\ UNCHANGED avars

SpecUnify == UnifyInit /\ [][UnifyNext]_vars

-----------------------------------------------------------------------------
(* Cycles in an environment *)

RECURSIVE VarsOf(_)
VarsOf(t) ==
  IF isVariable(t) THEN {t.id}
  ELSE IF isCompound(t) THEN UNION {VarsOf(t.args[i]) : i \in 1..Len(t.args)}
  ELSE {}

\* the variable ids a set of ids leads to through the bindings
RECURSIVE Reach(_, _)
Reach(S, b) ==
  LET N == S \cup UNION {VarsOf(b[i]) : i \in S \cap DOMAIN b}
  IN IF N = S THEN S ELSE Reach(N, b)

\* the binding of id v leads back to v
SelfReferent(v, b) == v \in Reach(VarsOf(b[v]), b)

Acyclic(b) == \A v \in DOMAIN b : ~SelfReferent(v, b)

-----------------------------------------------------------------------------
(* Properties of unify, apply and the trail *)

\* C4 as stated: whenever unify returns true, apply(env, t1) and
\* apply(env, t2) are computed and are the same term.
C4_SoundnessAlways ==
  (ulast.op = "unify" /\ ulast.st = "true") =>
     /\ apply(uenv, ulast.t1) # Overflow
     /\ apply(uenv, ulast.t1) = apply(uenv, ulast.t2)

\* C4 amended: whenever unify returns true and the resulting environment has
\* no cyclic binding, apply(env, t1) and apply(env, t2) are the same term.
C4_SoundnessAcyclic ==
  (ulast.op = "unify" /\ ulast.st = "true" /\ Acyclic(uenv)) =>
     /\ apply(uenv, ulast.t1) # Overflow
     /\ apply(uenv, ulast.t1) = apply(uenv, ulast.t2)

\* a successful unify of two different compound terms that bound a variable
\* in an environment that already had bindings
C4_Witness ==
  /\ ulast.op = "unify" /\ ulast.st = "true" /\ Acyclic(uenv)
  /\ isCompound(ulast.t1) /\ isCompound(ulast.t2) /\ ulast.t1 # ulast.t2
  /\ ulast.pre # EmptyBindings
  /\ Len(utrail) > Len(ulast.pretrail)

\* C6: whatever unify calls were made on an environment since its trail was
\* created empty, failed ones included, trail.unwind(env) gives back exactly
\* the bindings the environment had then and leaves the trail empty.
C6_TrailCompleteness ==
  /\ TrailUnwind(utrail, uenv) = [env |-> uenv0, trail |-> <<>>]
  /\ (ulast.op = "unwind") => (uenv = uenv0 /\ utrail = <<>>)

\* an unwind, over a non-empty starting environment, of the partial bindings
\* of a unify call that returned false
C6_Witness ==
  /\ ulast.op = "unwind" /\ ulast.st = "false"
  /\ ulast.pretrail # <<>>
  /\ uenv0 # EmptyBindings
  /\ ulast.pre # uenv0

\* the two environments make the same terms equal
EquivalentSubst(b1, b2) ==
  \A s \in UTerms, t \in UTerms :
     (apply(b1, s) = apply(b1, t)) <=> (apply(b2, s) = apply(b2, t))

\* C7: unify(t1, t2) succeeds on a copy of env iff unify(t2, t1) succeeds on
\* another copy, and then the two environments are equivalent substitutions.
C7_Symmetry ==
  (ulast.op = "unify") =>
     /\ (ulast.st = "true") <=> (ulast.mirror.st = "true")
     /\ (ulast.st = "true") => EquivalentSubst(uenv, ulast.mirror.env)

\* both orders succeed on compound terms and leave different bindings: a
\* variable is bound to a variable in opposite directions
C7_Witness ==
  /\ ulast.op = "unify" /\ ulast.st = "true" /\ ulast.mirror.st = "true"
  /\ isCompound(ulast.t1) /\ isCompound(ulast.t2)
  /\ uenv # ulast.mirror.env

-----------------------------------------------------------------------------
(* Index specification: clauses are added to the store one at a time *)

IV == Variable("V", 1)
IW == Variable("W", 2)

\* heads with atom, compound, number and variable first arguments
ClausePool ==
  { Clause(Compound("p", <<Atom("a"), Number(1)>>), <<>>),
    Clause(Compound("p", <<Atom("a"), Number(2)>>), <<>>),
    Clause(Compound("p", <<Atom("b"), Number(1)>>), <<>>),
    Clause(Compound("p", <<Compound("f", <<Atom("a")>>), Number(1)>>), <<>>),
    Clause(Compound("p", <<Number(7), Number(1)>>), <<>>),
    Clause(Compound("p", <<IV, Number(1)>>), <<>>),
    Clause(Compound("q", <<Atom("a"), Number(1)>>), <<>>) }

\* KnowledgeBase.add_clause(c)
AddClause(c) ==
  /\ kbmode = "index"
  /\ NumClauses(kb) < MaxClauses
  /\ kb' = add_clause(kb, c)
  /\ UNCHANGED kbmode

IndexInit ==
  /\ kb = EmptyKB /\ kbmode = "index" /\ UInit /\ uocc = FALSE /\ EngineIdle
  /\ ArithIdle

IndexNext == \E c \in ClausePool : AddClause(c) /\ UNCHANGED uvars /\ UNCHANGED evars
                                      /\ UNCHANGED avars

SpecIndex == IndexInit /\ [][IndexNext]_vars

\* the clauses of a predicate in the order they were added
ClausesOf(k, key) == DictGet(k.clauses, key, <<>>)

PKey == <<"p", 2>>

\* C8: for a goal whose first argument is a variable or a number,
\* get_candidates returns all clauses of the predicate in insertion order.
C8_WildcardGoalInsertionOrder ==
  \A g \in { Compound("p", <<IW, IV>>), Compound("p", <<Number(7), IV>>) } :
     get_candidates(kb, g) = ClausesOf(kb, PKey)

-----------------------------------------------------------------------------
(* Arithmetic evaluator: prolog_builtins/arith.py.  Values are integers;  *)
(* a quotient or power that is not an integer is kept as the fraction it   *)
(* stands for.  The constants pi and e and the float functions (sqrt, sin, *)
(* ...) have no integer value and are outside the expressions used here.   *)

\* ValueError, ZeroDivisionError: the exceptions the arithmetic builtins catch
EvalError == [ok |-> FALSE, value |-> 0, why |-> "error"]
\* RecursionError: the expression leads back to itself through the bindings
EvalOverflow == [ok |-> FALSE, value |-> 0, why |-> "overflow"]
EvalOk(v) == [ok |-> TRUE, value |-> v, why |-> "ok"]

\* a / d for d # 0: the float equal to the integer quotient when d divides a
TrueDiv(a, d) ==
  IF a = d * (a \div d) THEN a \div d ELSE [num |-> a, den |-> d]

\* int(a // d) and a % d on integers, d # 0: floor division and its remainder
FloorDiv(a, d) == a \div d
PyMod(a, d) == a - d * (a \div d)

\* a ** n on integers, n >= 0
RECURSIVE IntPow(_, _)
IntPow(a, n) == IF n = 0 THEN 1 ELSE a * IntPow(a, n - 1)

\* a ** n on integers: 0 to a negative power is a ZeroDivisionError, any
\* other negative power is the float 1 / a ** -n
Power(a, n) ==
  IF n >= 0 THEN EvalOk(IntPow(a, n))
  ELSE IF a = 0 THEN EvalError
  ELSE EvalOk(TrueDiv(1, IntPow(a, 0 - n)))

\* the operands are evaluated left to right (the divisor first for / // mod)
\* and the first exception leaves the evaluator
RECURSIVE evaluateF(_, _, _)
evaluateF(expr, b, fuel) ==
  LET d == deref(expr, b) IN
  IF fuel = 0 THEN EvalOverflow
  ELSE IF isNumber(d) THEN EvalOk(d.value)
  ELSE IF isVariable(d) THEN EvalError
  ELSE IF isAtom(d) THEN EvalError
  ELSE IF Len(d.args) = 2 /\ d.functor \in {"+", "-", "*", "**", "^"} THEN
    LET l == evaluateF(d.args[1], b, fuel - 1) IN
    IF ~l.ok THEN l
    ELSE LET r == evaluateF(d.args[2], b, fuel - 1) IN
         IF ~r.ok THEN r
         ELSE IF d.functor = "+" THEN EvalOk(l.value + r.value)
         ELSE IF d.functor = "-" THEN EvalOk(l.value - r.value)
         ELSE IF d.functor = "*" THEN EvalOk(l.value * r.value)
         ELSE Power(l.value, r.value)
  ELSE IF Len(d.args) = 2 /\ d.functor \in {"/", "//", "mod"} THEN
    LET r == evaluateF(d.args[2], b, fuel - 1) IN
    IF ~r.ok THEN r
    ELSE IF r.value = 0 THEN EvalError
    ELSE LET l == evaluateF(d.args[1], b, fuel - 1) IN
         IF ~l.ok THEN l
         ELSE IF d.functor = "mod" THEN EvalOk(PyMod(l.value, r.value))
         ELSE IF d.functor = "//" THEN EvalOk(FloorDiv(l.value, r.value))
         ELSE EvalOk(TrueDiv(l.value, r.value))
  ELSE IF Len(d.args) = 1 /\ d.functor = "-" THEN
    LET l == evaluateF(d.args[1], b, fuel - 1) IN
    IF l.ok THEN EvalOk(0 - l.value) ELSE l
  ELSE EvalError

evaluate(expr, b) == evaluateF(expr, b, MaxRec)

-----------------------------------------------------------------------------
(* Builtin registry: prolog_builtins/registry.py, builtins/core.py,         *)
(* prolog_builtins/arith.py                                                 *)

\* load_core_builtins
CoreBuiltins ==
  { <<"true", 0>>, <<"fail", 0>>, <<"=", 2>>, <<"\\=", 2>>, <<"var", 1>>,
    <<"nonvar", 1>>, <<"atom", 1>>, <<"number", 1>>, <<"compound", 1>> }

\* load_arithmetic_builtins
ArithBuiltins ==
  { <<"is", 2>>, <<"=:=", 2>>, <<"=\\=", 2>>, <<"<", 2>>, <<"=<", 2>>,
    <<">", 2>>, <<">=", 2>> }

\* main.initialize_engine: the builtins of GLOBAL_REGISTRY once the engine is
\* set up; load_core_builtins is the only loader it calls
initialize_engine == CoreBuiltins

is_builtin_unless_clauses(reg, goal) ==
  PredKeyOf(goal) \in reg /\ get_candidates(kb, goal) = <<>>
is_builtin(reg, goal) == PredKeyOf(goal) \in reg

\* what a builtin does with the caller's environment and trail: out is
\* "yield" (it yields env once), "none" (it yields nothing) or "raise" (an
\* exception leaves the generator); env and trail are the caller's objects
\* as the builtin leaves them
Outcome(out, b, st) == [out |-> out, env |-> b, trail |-> st]

FromUnify(r) ==
  Outcome(IF r.st = "true" THEN "yield" ELSE IF r.st = "false" THEN "none" ELSE "raise",
          r.env, r.trail)

equal_2_unchecked(args, b, st, occ) ==
  FromUnify(unify(args[1], args[2], b, st, FALSE))
equal_2(args, b, st, occ) == FromUnify(unify(args[1], args[2], b, st, occ))

not_equal_2_in_place(args, b, st, occ) ==
  LET r == unify(args[1], args[2], b, st, occ) IN
  Outcome(IF r.st = "false" THEN "yield" ELSE IF r.st = "true" THEN "none" ELSE "raise",
          r.env, r.trail)
not_equal_2(args, b, st, occ) ==
  LET r == unify(args[1], args[2], EnvCopy(b), <<>>, occ) IN
  Outcome(IF r.st = "false" THEN "yield" ELSE IF r.st = "true" THEN "none" ELSE "raise",
          b, st)

TypeTest(holds, b, st) == Outcome(IF holds THEN "yield" ELSE "none", b, st)

\* var/1, nonvar/1, atom/1, number/1, compound/1: the argument is dereferenced
\* in the caller's environment, which is yielded unchanged if the test holds
var_1(args, b, st) == TypeTest(isVariable(deref(args[1], b)), b, st)
nonvar_1_undereferenced(args, b, st) == TypeTest(~isVariable(args[1]), b, st)
nonvar_1(args, b, st) == TypeTest(~isVariable(deref(args[1], b)), b, st)
atom_1(args, b, st) == TypeTest(isAtom(deref(args[1], b)), b, st)
number_1(args, b, st) == TypeTest(isNumber(deref(args[1], b)), b, st)
compound_1(args, b, st) == TypeTest(isCompound(deref(args[1], b)), b, st)

\* a builtin left by an exception it does not catch
Raised(b, st) == Outcome("raise", b, st)

is_2_unevaluated(args, b, st, occ) ==
  FromUnify(unify(args[1], args[2], b, st, occ))
is_2(args, b, st, occ) ==
  LET v == evaluate(args[2], b) IN
  IF v.why = "overflow" THEN Raised(b, st)
  ELSE IF ~v.ok THEN Outcome("none", b, st)
  ELSE FromUnify(unify(args[1], Number(v.value), b, st, occ))

\* arithmetic_equal_2, arithmetic_not_equal_2, less_than_2, less_equal_2,
\* greater_than_2, greater_equal_2: both sides are evaluated, left first
CompareUncaught(op, args, b, st) ==
  LET l == evaluate(args[1], b)
      r == IF l.ok THEN evaluate(args[2], b) ELSE l
  IN IF ~r.ok THEN Raised(b, st)
     ELSE TypeTest(CASE op = "=:=" -> l.value = r.value
                     [] op = "=\\=" -> l.value # r.value
                     [] op = "<" -> l.value < r.value
                     [] op = "=<" -> l.value <= r.value
                     [] op = ">" -> l.value > r.value
                     [] op = ">=" -> l.value >= r.value, b, st)
Compare(op, args, b, st) ==
  LET l == evaluate(args[1], b)
      r == IF l.ok THEN evaluate(args[2], b) ELSE l
  IN IF r.why = "overflow" THEN Raised(b, st)
     ELSE IF ~r.ok THEN Outcome("none", b, st)
     ELSE TypeTest(CASE op = "=:=" -> l.value = r.value
                     [] op = "=\\=" -> l.value # r.value
                     [] op = "<" -> l.value < r.value
                     [] op = "=<" -> l.value <= r.value
                     [] op = ">" -> l.value > r.value
                     [] op = ">=" -> l.value >= r.value, b, st)

\* BuiltinRegistry.call: the implementation registered for the goal's
\* functor and arity, applied to list(goal.args)
CallBuiltin(goal, b, st, occ) ==
  LET f == goal.functor
      args == goal.args
  IN CASE f = "true" -> Outcome("yield", b, st)
       [] f = "fail" -> Outcome("none", b, st)
       [] f = "=" -> equal_2(args, b, st, occ)
       [] f = "\\=" -> not_equal_2(args, b, st, occ)
       [] f = "var" -> var_1(args, b, st)
       [] f = "nonvar" -> nonvar_1(args, b, st)
       [] f = "atom" -> atom_1(args, b, st)
       [] f = "number" -> number_1(args, b, st)
       [] f = "compound" -> compound_1(args, b, st)
       [] f = "is" -> is_2(args, b, st, occ)
       [] OTHER -> Compare(f, args, b, st)

-----------------------------------------------------------------------------
(* Knowledge bases and queries the resolver is run on.  Variables carry the *)
(* ids the parser gives them: one Variable per name and clause, the query's *)
(* variables after those of the consulted file.                             *)

Cons(h, t) == Compound(".", <<h, t>>)
NumList(xs) == List([i \in 1..Len(xs) |-> Number(xs[i])])

AppendKB ==
  LET L1 == Variable("L", 1)
      H == Variable("H", 2)
      T == Variable("T", 3)
      L == Variable("L", 4)
      R == Variable("R", 5)
  IN << Clause(Compound("append", <<Atom("[]"), L1, L1>>), <<>>),
        Clause(Compound("append", <<Cons(H, T), L, Cons(H, R)>>),
               <<Compound("append", <<T, L, R>>)>>) >>

ParentKB ==
  << Clause(Compound("parent", <<Atom("tom"), Atom("bob")>>), <<>>),
     Clause(Compound("parent", <<Atom("bob"), Atom("ann")>>), <<>>),
     Clause(Compound("parent", <<Atom("bob"), Atom("pat")>>), <<>>) >>

QX == Variable("X", 6)
QY == Variable("Y", 7)
QZ == Variable("Z", 8)

Eq(a, b) == Compound("=", <<a, b>>)

NamedScenarios ==
  { [name |-> "append1", kb |-> AppendKB,
     goals |-> <<Compound("append", <<NumList(<<1, 2>>), NumList(<<3, 4>>), QZ>>)>>],
    [name |-> "append2", kb |-> AppendKB,
     goals |-> <<Compound("append", <<QX, QY, NumList(<<1, 2, 3>>)>>)>>],
    [name |-> "parent", kb |-> ParentKB,
     goals |-> <<Compound("parent", <<Atom("bob"), QX>>)>>],
    [name |-> "cyclic", kb |-> <<>>,
     goals |-> <<Eq(QX, Compound("f", <<QX>>))>>],
    [name |-> "headocc",
     kb |-> <<Clause(Compound("p", <<Variable("Y", 1), Compound("f", <<Variable("Y", 1)>>)>>), <<>>)>>,
     goals |-> <<Compound("p", <<QX, QX>>)>>],
    [name |-> "types", kb |-> <<>>,
     goals |-> <<Compound("var", <<QX>>), Eq(QX, Number(5)),
                 Compound("nonvar", <<QX>>), Compound("number", <<QX>>)>>],
    [name |-> "atom5", kb |-> <<>>,
     goals |-> <<Compound("atom", <<Number(5)>>)>>],
    [name |-> "order",
     kb |-> << Clause(Compound("s", <<Variable("X", 1)>>),
                      <<Compound("p", <<Variable("X", 1)>>)>>),
               Clause(Compound("p", <<Number(1)>>), <<>>),
               Clause(Compound("p", <<Number(2)>>), <<>>),
               Clause(Compound("t", <<Atom("a")>>), <<>>),
               Clause(Compound("t", <<Atom("b")>>), <<>>) >>,
     goals |-> <<Compound("s", <<QX>>), Compound("t", <<QY>>)>>],
    [name |-> "branches",
     kb |-> << Clause(Compound("g", <<Atom("a"), Atom("c")>>), <<>>),
               Clause(Compound("g", <<Variable("Y", 1), Atom("b")>>),
                      <<Eq(Variable("Y", 1), Atom("d"))>>),
               Clause(Compound("g", <<Atom("e"), Atom("b")>>), <<>>) >>,
     goals |-> <<Compound("g", <<QX, Atom("b")>>)>>],
    [name |-> "shadow",
     kb |-> << Clause(Compound("var", <<Atom("a")>>), <<>>),
               Clause(Eq(Atom("a"), Atom("b")), <<>>) >>,
     goals |-> <<Eq(QX, Atom("a")), Compound("var", <<QX>>)>>],
    [name |-> "loop",
     kb |-> << Clause(Compound("p", <<Variable("X", 1)>>),
                      <<Compound("p", <<Variable("X", 1)>>)>>) >>,
     goals |-> <<Compound("p", <<Atom("a")>>)>>],
    [name |-> "is", kb |-> <<>>,
     goals |-> <<Compound("is", <<QX, Compound("+", <<Number(1), Number(2)>>)>>),
                 Eq(QY, Compound("g", <<QX, QY>>))>>],
    [name |-> "noteq",
     kb |-> << Clause(Compound("q", <<Atom("a")>>), <<>>),
               Clause(Compound("q", <<Atom("b")>>), <<>>),
               Clause(Compound("r", <<Variable("X", 1)>>),
                      << Compound("q", <<Variable("X", 1)>>),
                         Compound("\\=", <<Variable("X", 1), Atom("a")>>) >>) >>,
     goals |-> <<Compound("r", <<QZ>>)>>],
    [name |-> "noteqcyc", kb |-> <<>>,
     goals |-> <<Eq(QX, Compound("f", <<QX>>)), Eq(QY, Compound("f", <<QY>>)),
                 Compound("\\=", <<QX, QY>>)>>],
    [name |-> "noteqvar", kb |-> <<>>,
     goals |-> <<Compound("\\=", <<Compound("g", <<QX, Atom("a")>>),
                                   Compound("g", <<Atom("b"), Atom("c")>>)>>),
                 Compound("\\=", <<QY, Atom("a")>>)>>],
    [name |-> "cut",
     kb |-> << Clause(Compound("q", <<Atom("a")>>), <<>>),
               Clause(Compound("q", <<Atom("b")>>), <<>>),
               Clause(Compound("c", <<Variable("X", 1)>>),
                      << Compound("q", <<Variable("X", 1)>>),
                         Compound("!", <<>>) >>) >>,
     goals |-> <<Compound("c", <<QZ>>)>>],
    [name |-> "arithcyc", kb |-> <<>>,
     goals |-> <<Eq(QX, Compound("+", <<Number(1), QX>>)),
                 Compound("is", <<QY, QX>>)>>] }

\* queries of two unifications T1 = T2, T3 = T4
EqTerms ==
  { QX, QY, Atom("a"), Compound("f", <<QX>>), Compound("f", <<QY>>),
    Compound("g", <<QY, QX>>) }

EqScenarios ==
  { [name |-> "eq", kb |-> <<>>, goals |-> <<Eq(t1, t2), Eq(t3, t4)>>] :
      t1 \in EqTerms, t2 \in EqTerms, t3 \in {QX, QY}, t4 \in EqTerms }

\* queries of one arithmetic goal L op R; the operands are an unbound
\* variable, numbers, evaluable expressions, the three divisions by zero, an
\* atom that is no constant, an unknown functor and a known functor with the
\* wrong number of arguments
ArithOps == {"is", "=:=", "=\\=", "<", "=<", ">", ">="}

ArithTerms ==
  { QX, Number(1), Compound("+", <<Number(1), Number(2)>>),
    Compound("/", <<Number(1), Number(0)>>),
    Compound("//", <<Number(7), Number(0)>>),
    Compound("mod", <<Number(7), Number(0)>>),
    Atom("foo"), Compound("foo", <<Number(1)>>), Compound("+", <<Number(1)>>) }

ArithScenarios ==
  { [name |-> "arith", kb |-> <<>>, goals |-> <<Compound(op, <<l, r>>)>>] :
      op \in ArithOps, l \in ArithTerms, r \in ArithTerms }

Scenarios == NamedScenarios \cup EqScenarios \cup ArithScenarios

-----------------------------------------------------------------------------
(* Resolver: solver/engine.py.  Engine.query is a generator; the nested     *)
(* activations of Engine._solve are the frames of stack.  A frame is at     *)
(* "enter" (not started), "yielded" (suspended at yield env.copy()),        *)
(* "builtin" (inside the loop over the environments of a builtin) or        *)
(* "clauses" (inside the loop over the candidate clauses).                  *)

Frame(goals, env, trail, proof) ==
  [goals |-> goals, env |-> env, trail |-> trail, mode |-> "enter",
   cands |-> <<>>, proof |-> proof, lookup |-> 0]

Top == stack[Len(stack)]
SetTop(f) == [stack EXCEPT ![Len(stack)] = f]
Pop == SubSeq(stack, 1, Len(stack) - 1)

NoRun == [end |-> "none", sols |-> <<>>]

EngineInit ==
  /\ scen \in Scenarios
  /\ occurs_check \in BOOLEAN
  /\ registry \in {CoreBuiltins, CoreBuiltins \cup ArithBuiltins}
  /\ kb = EmptyKB /\ kbmode = "engine"
  /\ toload = scen.kb
  /\ pc = "load"
  /\ stack = <<>> /\ envs = <<>> /\ trails = <<>>
  /\ yielded = <<>> /\ selections = <<>>
  /\ dispatched = <<>> /\ run = 1 /\ prev = NoRun
  /\ derivations = <<>>

\* Engine.load: one add_clause per clause, in order
Load ==
  /\ pc = "load" /\ toload # <<>>
  /\ kb' = add_clause(kb, Head(toload))
  /\ toload' = Tail(toload)
  /\ UNCHANGED <<kbmode, occurs_check, registry, scen, pc, stack, envs, trails,
                 yielded, selections, dispatched, run, prev, derivations>>

\* Engine.query(goals): the generator is created, nothing of it has run
Query ==
  /\ pc = "load" /\ toload = <<>>
  /\ pc' = "ready"
  /\ UNCHANGED <<kb, kbmode, occurs_check, registry, scen, toload, stack, envs,
                 trails, yielded, selections, dispatched, run, prev, derivations>>

\* env = Env(): the bindings of the environment a query starts with
QueryEnvShared == IF envs = <<>> THEN EmptyBindings ELSE envs[1]
QueryEnv == EmptyBindings

\* the consumer asks for the next solution; the first time, query builds
\* Env() and Trail() and calls _solve
Pull ==
  /\ \/ /\ pc = "ready"
        /\ envs' = Append(envs, QueryEnv)
        /\ trails' = Append(trails, <<>>)
        /\ stack' = <<Frame(scen.goals, Len(envs) + 1, Len(trails) + 1, <<>>)>>
     \/ /\ pc = "suspended"
        /\ UNCHANGED <<envs, trails, stack>>
  /\ pc' = "run"
  /\ UNCHANGED <<kb, kbmode, occurs_check, registry, scen, toload, yielded,
                 selections, dispatched, run, prev, derivations>>

\* the consumer stops pulling
Stop ==
  /\ pc = "suspended"
  /\ pc' = "abandoned"
  /\ UNCHANGED <<kb, kbmode, occurs_check, registry, scen, toload, stack, envs,
                 trails, yielded, selections, dispatched, run, prev, derivations>>

\* where the generator is after yield env.copy(): suspended until the next pull
RunPastYield == "run"
SuspendAtYield == "suspended"

\* the object yield env.copy() hands out: a new one, not the environment h
\* the frame works with
yielded_env_uncopied(es, h) == h
yielded_env(es, h) == Len(es) + 1

\* if not goals: yield env.copy()
SolveYield ==
  /\ pc = "run" /\ Top.mode = "enter" /\ Top.goals = <<>>
  /\ envs' = Append(envs, EnvCopy(envs[Top.env]))
  /\ yielded' = Append(yielded, yielded_env(envs, Top.env))
  /\ stack' = SetTop([Top EXCEPT !.mode = "yielded"])
  /\ derivations' = Append(derivations,
                           [i \in 1..Len(Top.proof) |-> Top.proof[i].rank])
  /\ pc' = SuspendAtYield
  /\ UNCHANGED <<kb, kbmode, occurs_check, registry, scen, toload, trails,
                 selections, dispatched, run, prev>>

\* an entry of the log of selected goals: how the goal was dispatched, the
\* caller's environment and trail before and after, and the outcome
Dispatch(goal, via, b, st, r) ==
  [goal |-> goal, via |-> via, pre |-> b, pretrail |-> st, out |-> r.out,
   post |-> r.env, posttrail |-> r.trail]

\* the selected goal is a builtin: GLOBAL_REGISTRY.call(first, self, env,
\* trail) and, if it yields, _solve(rest, result_env, trail)
SolveBuiltin ==
  /\ pc = "run" /\ Top.mode = "enter" /\ Top.goals # <<>>
  /\ is_builtin(registry, Head(Top.goals))
  /\ Len(stack) < MaxDepth
  /\ LET r == CallBuiltin(Head(Top.goals), envs[Top.env], trails[Top.trail],
                          occurs_check)
     IN /\ envs' = [envs EXCEPT ![Top.env] = r.env]
        /\ trails' = [trails EXCEPT ![Top.trail] = r.trail]
        /\ dispatched' = Append(dispatched,
                                Dispatch(Head(Top.goals), "builtin", envs[Top.env],
                                         trails[Top.trail], r))
        /\ stack' = IF r.out = "yield"
                    THEN Append(SetTop([Top EXCEPT !.mode = "builtin"]),
                                Frame(Tail(Top.goals), Top.env, Top.trail, Top.proof))
                    ELSE IF r.out = "none"
                    THEN SetTop([Top EXCEPT !.mode = "builtin"])
                    ELSE <<>>
        /\ pc' = IF r.out = "raise" THEN "raised" ELSE "run"
  /\ UNCHANGED <<kb, kbmode, occurs_check, registry, scen, toload, yielded,
                 selections, run, prev, derivations>>

\* the selected goal is not a builtin: for clause in kb.get_candidates(first)
SolveCandidates ==
  /\ pc = "run" /\ Top.mode = "enter" /\ Top.goals # <<>>
  /\ ~is_builtin(registry, Head(Top.goals))
  /\ stack' = SetTop([Top EXCEPT !.mode = "clauses",
                                 !.cands = get_candidates(kb, Head(Top.goals)),
                                 !.lookup = Len(dispatched) + 1])
  /\ dispatched' = Append(dispatched,
                          Dispatch(Head(Top.goals), "kb", envs[Top.env],
                                   trails[Top.trail],
                                   Outcome("lookup", envs[Top.env], trails[Top.trail])))
  /\ UNCHANGED <<kb, kbmode, occurs_check, registry, scen, toload, pc, envs,
                 trails, yielded, selections, run, prev, derivations>>

\* the term whose variables the clause is unified and resolved with
SelectedHead(clause) == clause.head
SelectedBody(clause) == clause.body

\* local_env = env.copy(): the heap once unify has worked on the copy; the
\* environment h of the frame is another object and stays as it is
local_env_aliased(es, h, b) == Append([es EXCEPT ![h] = b], b)
local_env(es, h, b) == Append(es, b)

\* new_goals = list(clause.body) + rest
new_goals_rest_first(body, rest) == rest \o body
new_goals(body, rest) == body \o rest

\* one iteration of the loop over the candidates: local_env = env.copy(),
\* local_trail = Trail(), unify(first, clause.head, ...) and, if it is true,
\* _solve(list(clause.body) + rest, local_env, local_trail)
SolveTry ==
  /\ pc = "run" /\ Top.mode = "clauses" /\ Top.cands # <<>>
  /\ Len(stack) < MaxDepth
  /\ LET clause == Head(Top.cands)
         first == Head(Top.goals)
         rest == Tail(Top.goals)
         head == SelectedHead(clause)
         r == unify(first, head, EnvCopy(envs[Top.env]), <<>>, occurs_check)
         sel == [clause |-> clause, head |-> head,
                 bound |-> VarsOf(head) \cap DOMAIN envs[Top.env],
                 env |-> Len(envs) + 1, st |-> r.st,
                 rank |-> Len(get_candidates(kb, first)) - Len(Top.cands) + 1,
                 base |-> envs[Top.env], lookup |-> Top.lookup]
         frame == [Top EXCEPT !.cands = Tail(Top.cands)]
     IN /\ envs' = local_env(envs, Top.env, r.env)
        /\ trails' = Append(trails, r.trail)
        /\ selections' = Append(selections, sel)
        /\ stack' = IF r.st = "true"
                    THEN Append(SetTop(frame),
                                Frame(new_goals(SelectedBody(clause), rest), Len(envs) + 1,
                                      Len(trails) + 1, Append(Top.proof, sel)))
                    ELSE IF r.st = "false" THEN SetTop(frame)
                    ELSE <<>>
        /\ pc' = IF r.st = "overflow" THEN "raised" ELSE "run"
  /\ UNCHANGED <<kb, kbmode, occurs_check, registry, scen, toload, yielded,
                 dispatched, run, prev, derivations>>

\* how the query ends when the nested activations have used up the
\* interpreter's recursion limit: nothing in query or _solve catches the
\* RecursionError, which reaches the consumer
OnRecursionLimitExhausted == "done"
OnRecursionLimit == "raised"

\* the innermost activation is as deep as the recursion limit allows and
\* makes its next call, of a builtin or of unify and _solve
SolveOverflow ==
  /\ pc = "run" /\ Len(stack) >= MaxDepth
  /\ \/ Top.mode = "enter" /\ Top.goals # <<>> /\ is_builtin(registry, Head(Top.goals))
     \/ Top.mode = "clauses" /\ Top.cands # <<>>
  /\ pc' = OnRecursionLimit
  /\ stack' = <<>>
  /\ UNCHANGED <<kb, kbmode, occurs_check, registry, scen, toload, envs, trails,
                 yielded, selections, dispatched, run, prev, derivations>>

\* the activation returns: after its yield, when the builtin has no further
\* environment, or when the candidates are used up
SolveReturn ==
  /\ pc = "run"
  /\ \/ Top.mode \in {"yielded", "builtin"}
     \/ Top.mode = "clauses" /\ Top.cands = <<>>
  /\ stack' = Pop
  /\ pc' = IF Len(stack) = 1 THEN "done" ELSE "run"
  /\ UNCHANGED <<kb, kbmode, occurs_check, registry, scen, toload, envs, trails,
                 yielded, selections, dispatched, run, prev, derivations>>

\* Engine.query(goals) is called again with the same goals once the consumer
\* is through with the previous generator; the objects of the previous run
\* stay where they are
Requery ==
  /\ pc \in {"done", "abandoned", "raised"}
  /\ run < MaxRuns
  /\ prev' = [end |-> pc,
              sols |-> [i \in 1..Len(yielded) |-> envs[yielded[i]]]]
  /\ run' = run + 1
  /\ pc' = "ready"
  /\ stack' = <<>> /\ yielded' = <<>> /\ selections' = <<>>
  /\ dispatched' = <<>> /\ derivations' = <<>>
  /\ UNCHANGED <<kb, kbmode, occurs_check, registry, scen, toload, envs, trails>>

Init == EngineInit /\ UInit /\ uocc = FALSE /\ ArithIdle

Next ==
  \/ Load /\ UNCHANGED uvars /\ UNCHANGED avars
  \/ Query /\ UNCHANGED uvars /\ UNCHANGED avars
  \/ Pull /\ UNCHANGED uvars /\ UNCHANGED avars
  \/ Stop /\ UNCHANGED uvars /\ UNCHANGED avars
  \/ SolveYield /\ UNCHANGED uvars /\ UNCHANGED avars
  \/ SolveBuiltin /\ UNCHANGED uvars /\ UNCHANGED avars
  \/ SolveCandidates /\ UNCHANGED uvars /\ UNCHANGED avars
  \/ SolveTry /\ UNCHANGED uvars /\ UNCHANGED avars
  \/ SolveOverflow /\ UNCHANGED uvars /\ UNCHANGED avars
  \/ SolveReturn /\ UNCHANGED uvars /\ UNCHANGED avars
  \/ Requery /\ UNCHANGED uvars /\ UNCHANGED avars

Spec == Init /\ [][Next]_vars

\* the terms the query's variables stand for in the i-th yielded environment
Solution(i, t) == apply(envs[yielded[i]], t)

-----------------------------------------------------------------------------
(* Parser: parse/parser.py.  The parser works on the token list it is given *)
(* (Parser._tokens); a token is its kind and its lexeme, the lexeme of a    *)
(* NUMBER being its characters.  Lists are not part of the texts read here. *)

Token(kind, lexeme) == [kind |-> kind, lexeme |-> lexeme]

OPERATOR_PRECEDENCE ==
  [op \in {"^", "*", "/", "+", "-"} |->
     IF op = "^" THEN 200 ELSE IF op \in {"*", "/"} THEN 400 ELSE 500]

\* max(OPERATOR_PRECEDENCE.values())
MaxPrecedence ==
  CHOOSE p \in {OPERATOR_PRECEDENCE[op] : op \in DOMAIN OPERATOR_PRECEDENCE} :
    \A op \in DOMAIN OPERATOR_PRECEDENCE : OPERATOR_PRECEDENCE[op] <= p

\* the parser's position, its var_map and the id the next Variable() gets
ParserState(pos, var_map, next) == [pos |-> pos, var_map |-> var_map, next |-> next]

\* _advance
Advance(ps) == [ps EXCEPT !.pos = @ + 1]

\* a term was read / SyntaxErrorProlog was raised
Parsed(t, ps) == [ok |-> TRUE, term |-> t, ps |-> ps]
SyntaxErrorProlog(ps) == [ok |-> FALSE, term |-> Atom("syntax_error"), ps |-> ps]

\* int(val): the value of a sequence of decimal digits
DigitValue(ch) ==
  CASE ch = "0" -> 0 [] ch = "1" -> 1 [] ch = "2" -> 2 [] ch = "3" -> 3
    [] ch = "4" -> 4 [] ch = "5" -> 5 [] ch = "6" -> 6 [] ch = "7" -> 7
    [] ch = "8" -> 8 [] ch = "9" -> 9

RECURSIVE IntOf(_)
IntOf(chars) ==
  IF chars = <<>> THEN 0
  ELSE 10 * IntOf(SubSeq(chars, 1, Len(chars) - 1)) + DigitValue(chars[Len(chars)])

\* the precedence the right operand of an infix operator is read with
RightPrecedence(op, precedence) == IF op = "^" THEN precedence ELSE precedence

\* a local variable: value is computed once and F is applied to it
Given(value, F(_)) == CHOOSE x \in {F(v) : v \in {value}} : TRUE

RECURSIVE parse_expression(_, _, _)
RECURSIVE parse_infix(_, _, _, _)
RECURSIVE parse_primary(_, _)
RECURSIVE parse_arguments(_, _, _)

parse_term(toks, ps) == parse_expression(toks, ps, MaxPrecedence + 1)

\* the loop of parse_expression: left is the term read so far
parse_infix(toks, ps, left, max_precedence) ==
  LET op == toks[ps.pos].kind IN
  IF op \notin DOMAIN OPERATOR_PRECEDENCE THEN Parsed(left, ps)
  ELSE IF OPERATOR_PRECEDENCE[op] >= max_precedence THEN Parsed(left, ps)
  ELSE Given(parse_expression(toks, Advance(ps),
                              RightPrecedence(op, OPERATOR_PRECEDENCE[op])),
             LAMBDA right :
               IF ~right.ok THEN right
               ELSE parse_infix(toks, right.ps, Compound(op, <<left, right.term>>),
                                max_precedence))

parse_expression(toks, ps, max_precedence) ==
  Given(parse_primary(toks, ps),
        LAMBDA left :
          IF ~left.ok THEN left
          ELSE parse_infix(toks, left.ps, left.term, max_precedence))

\* the arguments after "(": terms separated by commas, up to ")"; the result
\* carries the arguments read so far in the place of the term
parse_arguments(toks, ps, args) ==
  IF args = <<>> /\ toks[ps.pos].kind = ")" THEN Parsed(args, Advance(ps))
  ELSE Given(parse_term(toks, ps),
             LAMBDA a :
               IF ~a.ok THEN a
               ELSE IF toks[a.ps.pos].kind = ","
                    THEN parse_arguments(toks, Advance(a.ps), Append(args, a.term))
               ELSE IF toks[a.ps.pos].kind = ")"
                    THEN Parsed(Append(args, a.term), Advance(a.ps))
               ELSE SyntaxErrorProlog(a.ps))

\* the branches of parse_primary in the order of the code; the branch for a
\* leading "-" comes after the one for operators and is never taken
parse_primary(toks, ps) ==
  LET tok == toks[ps.pos] IN
  IF tok.kind = "NUMBER" THEN Parsed(Number(IntOf(tok.lexeme)), Advance(ps))
  ELSE IF tok.kind = "VAR" THEN
    IF DictHas(ps.var_map, tok.lexeme)
    THEN Parsed(DictGet(ps.var_map, tok.lexeme, NoGoal), Advance(ps))
    ELSE LET v == Variable(tok.lexeme, ps.next) IN
         Parsed(v, [pos |-> ps.pos + 1,
                    var_map |-> DictSet(ps.var_map, tok.lexeme, v),
                    next |-> ps.next + 1])
  ELSE IF tok.kind \in DOMAIN OPERATOR_PRECEDENCE \/ tok.kind = "ATOM" THEN
    IF toks[ps.pos + 1].kind = "("
    THEN Given(parse_arguments(toks, Advance(Advance(ps)), <<>>),
               LAMBDA as :
                 IF ~as.ok THEN as
                 ELSE Parsed(Compound(IF tok.kind = "ATOM" THEN tok.lexeme
                                      ELSE tok.kind, as.term), as.ps))
    ELSE IF tok.kind = "ATOM" THEN Parsed(Atom(tok.lexeme), Advance(ps))
    ELSE SyntaxErrorProlog(ps)
  ELSE IF tok.kind = "(" THEN
    Given(parse_term(toks, Advance(ps)),
          LAMBDA inner :
            IF ~inner.ok THEN inner
            ELSE IF toks[inner.ps.pos].kind = ")"
                 THEN Parsed(inner.term, Advance(inner.ps))
            ELSE SyntaxErrorProlog(inner.ps))
  ELSE SyntaxErrorProlog(ps)

parse_compound_like(toks, ps) ==
  Given(parse_term(toks, ps),
        LAMBDA t :
          IF ~t.ok THEN t
          ELSE IF isCompound(t.term) THEN t
          ELSE IF isAtom(t.term) THEN Parsed(Compound(t.term.name, <<>>), t.ps)
          ELSE SyntaxErrorProlog(t.ps))

\* parse_goals: goals separated by commas; the result carries the goals read
\* so far in the place of the term
RECURSIVE parse_goals(_, _, _)
parse_goals(toks, ps, goals) ==
  Given(parse_compound_like(toks, ps),
        LAMBDA g :
          IF ~g.ok THEN g
          ELSE IF toks[g.ps.pos].kind = ","
               THEN parse_goals(toks, Advance(g.ps), Append(goals, g.term))
          ELSE Parsed(Append(goals, g.term), g.ps))

\* the body of a clause whose head has been read
parse_body(toks, head) ==
  IF toks[head.ps.pos].kind = ":-" THEN
    Given(parse_goals(toks, Advance(head.ps), <<>>),
          LAMBDA goals :
            IF ~goals.ok THEN goals
            ELSE IF toks[goals.ps.pos].kind = "."
                 THEN Parsed(Clause(head.term, goals.term), Advance(goals.ps))
            ELSE SyntaxErrorProlog(goals.ps))
  ELSE IF toks[head.ps.pos].kind = "."
       THEN Parsed(Clause(head.term, <<>>), Advance(head.ps))
  ELSE SyntaxErrorProlog(head.ps)

\* Parser.parse_clause on a new parser: var_map = {}, head, then ":-" and the
\* goals or nothing, then "."
parse_clause(toks, next) ==
  Given(parse_compound_like(toks, ParserState(1, <<>>, next)),
        LAMBDA head : IF ~head.ok THEN head ELSE parse_body(toks, head))

-----------------------------------------------------------------------------
(* Reading and evaluating one arithmetic query: the text of a query is read *)
(* as the REPL reads it (the body of "dummy :- <text>"), or the goal X is E  *)
(* is given as a term; then X is E, E =:= E and, in the environment X is E  *)
(* yielded, X =:= E are called on the builtins.                             *)

Punct(ch) == Token(ch, ch)
Num(chars) == Token("NUMBER", chars)

\* the tokens of "dummy :- is(Y, <expression>)."
IsQueryText(expression) ==
  <<Token("ATOM", "dummy"), Punct(":-"), Token("ATOM", "is"), Punct("("),
    Token("VAR", "Y"), Punct(",")>>
  \o expression \o <<Punct(")"), Punct("."), Token("EOF", "")>>

TextOps == {"^", "*", "+", "-"}
TextNumbers == {Num(<<"2">>), Num(<<"3">>)}

ExpressionTexts ==
  { <<a, Punct(o1), b, Punct(o2), c>> :
      a \in TextNumbers, b \in TextNumbers, c \in TextNumbers,
      o1 \in TextOps, o2 \in TextOps }
  \cup
  { <<Num(<<"2">>), Punct("^"), Punct("("), Num(<<"3">>), Punct("^"), Num(<<"2">>),
      Punct(")")>>,
    <<Punct("("), Num(<<"2">>), Punct("^"), Num(<<"3">>), Punct(")"), Punct("^"),
      Num(<<"2">>)>>,
    <<Punct("^"), Punct("("), Num(<<"2">>), Punct(","), Num(<<"1", "0">>),
      Punct(")")>>,
    <<Punct("-"), Punct("("), Num(<<"1", "2">>), Punct(")")>>,
    <<Punct("-"), Num(<<"3">>)>>,
    <<Num(<<"2">>), Punct("+")>>,
    <<Token("ATOM", "foo"), Punct("("), Token("VAR", "Y"), Punct(","),
      Token("VAR", "Z"), Punct(")")>> }

QueryTexts == {IsQueryText(e) : e \in ExpressionTexts}

\* ground expressions over integers with + - * // mod and unary minus
IntLeaves == {Number(0), Number(2), Number(0 - 3)}
BinaryOps == {"+", "-", "*", "//", "mod"}

Expressions(sub) ==
  sub \cup {Compound(op, <<l, r>>) : op \in BinaryOps, l \in sub, r \in sub}
      \cup {Compound("-", <<l>>) : l \in sub}

GroundExpressions == Expressions(Expressions(IntLeaves))

ArithInit ==
  /\ \/ /\ atext \in QueryTexts
        /\ agoal = NoGoal
        /\ apc = "text"
     \/ /\ atext = <<>>
        /\ agoal \in {Compound("is", <<QX, e>>) : e \in GroundExpressions}
        /\ apc = "goal"
  /\ ares = [is |-> Pending, eq |-> Pending, chk |-> Pending]

\* _parse_query: the goals of the clause read from "dummy :- <text>"
ReadQuery ==
  /\ apc = "text"
  /\ \E c \in {parse_clause(atext, 1)} :
        IF c.ok /\ Len(c.term.body) = 1
        THEN agoal' = c.term.body[1] /\ apc' = "goal"
        ELSE agoal' = NoGoal /\ apc' = "syntax_error"
  /\ UNCHANGED <<atext, ares>>

\* X is E in a new environment
CallIs ==
  /\ apc = "goal"
  /\ ares' = [ares EXCEPT !.is = CallBuiltin(agoal, EmptyBindings, <<>>, FALSE)]
  /\ apc' = "is"
  /\ UNCHANGED <<atext, agoal>>

\* E =:= E in a new environment
CallEqual ==
  /\ apc = "is"
  /\ ares' = [ares EXCEPT !.eq =
                CallBuiltin(Compound("=:=", <<agoal.args[2], agoal.args[2]>>),
                            EmptyBindings, <<>>, FALSE)]
  /\ apc' = "eq"
  /\ UNCHANGED <<atext, agoal>>

\* X =:= E in the environment X is E yielded
CallCheck ==
  /\ apc = "eq" /\ ares.is.out = "yield"
  /\ ares' = [ares EXCEPT !.chk =
                CallBuiltin(Compound("=:=", <<agoal.args[1], agoal.args[2]>>),
                            ares.is.env, ares.is.trail, FALSE)]
  /\ apc' = "end"
  /\ UNCHANGED <<atext, agoal>>

ArithNext ==
  \/ ReadQuery /\ UNCHANGED <<kb, kbmode>> /\ UNCHANGED evars /\ UNCHANGED uvars
  \/ CallIs /\ UNCHANGED <<kb, kbmode>> /\ UNCHANGED evars /\ UNCHANGED uvars
  \/ CallEqual /\ UNCHANGED <<kb, kbmode>> /\ UNCHANGED evars /\ UNCHANGED uvars
  \/ CallCheck /\ UNCHANGED <<kb, kbmode>> /\ UNCHANGED evars /\ UNCHANGED uvars

ArithSpecInit ==
  ArithInit /\ UInit /\ uocc = FALSE /\ EngineIdle /\ kb = EmptyKB /\ kbmode = "off"

SpecArith == ArithSpecInit /\ [][ArithNext]_vars

-----------------------------------------------------------------------------
(* Properties of the resolver *)

\* C1: with the two append/3 clauses, the query append([1,2],[3,4],Z) yields
\* exactly one solution, in which Z is the list [1,2,3,4].
C1_AppendConcatenates ==
  (scen.name = "append1" /\ pc = "done") =>
     /\ Len(yielded) = 1
     /\ Solution(1, QZ) = NumList(<<1, 2, 3, 4>>)

\* C2: with the two append/3 clauses, the query append(X,Y,[1,2,3]) yields
\* exactly the four splits of the list, shortest X first, and then ends.
AppendSplits ==
  << <<NumList(<<>>), NumList(<<1, 2, 3>>)>>,
     <<NumList(<<1>>), NumList(<<2, 3>>)>>,
     <<NumList(<<1, 2>>), NumList(<<3>>)>>,
     <<NumList(<<1, 2, 3>>), NumList(<<>>)>> >>

C2_AppendSplits ==
  (scen.name = "append2") =>
     /\ Len(yielded) <= 4
     /\ \A i \in 1..Len(yielded) :
           <<Solution(i, QX), Solution(i, QY)>> = AppendSplits[i]
     /\ (pc = "done") => (Len(yielded) = 4)

\* C3: every selection of a candidate clause works on a copy of the clause
\* whose variables are new: none of them is bound in the environment of the
\* goal, and two selections of the same clause in one proof share no
\* variable id.
C3_FreshVariablesPerSelection ==
  /\ \A n \in 1..Len(selections) : selections[n].bound = {}
  /\ \A f \in 1..Len(stack) :
        \A i \in 1..Len(stack[f].proof), j \in 1..Len(stack[f].proof) :
           (i < j /\ stack[f].proof[i].clause = stack[f].proof[j].clause)
             => VarsOf(stack[f].proof[i].head) \cap VarsOf(stack[f].proof[j].head) = {}

\* C5: with occurs_check on, no environment the resolver holds, at any point
\* of any query, binds a variable to a term that leads back to the variable.
C5_OccursCheckSafety ==
  occurs_check => \A h \in 1..Len(envs) : Acyclic(envs[h])

\* the end of a query under occurs_check in which the head p(Y, f(Y)) was
\* tried for the goal p(X, X): X was bound to Y and Y = f(Y) was refused
C5_Witness ==
  /\ occurs_check /\ pc = "done" /\ yielded = <<>>
  /\ scen.name = "headocc" /\ Len(selections) = 1
  /\ selections[1].st = "false"
  /\ DOMAIN envs[2] = {QX.id}

\* C10: with the three parent/2 facts, the query parent(bob, X) yields
\* X = ann, then X = pat, and then ends.
C10_ParentOrder ==
  (scen.name = "parent") =>
     /\ Len(yielded) <= 2
     /\ \A i \in 1..Len(yielded) : Solution(i, QX) = <<Atom("ann"), Atom("pat")>>[i]
     /\ (pc = "done") => (Len(yielded) = 2)

\* the search for parent(bob, X) is exhausted after its two solutions
C10_Witness ==
  /\ scen.name = "parent" /\ pc = "done" /\ Len(yielded) = 2
  /\ Len(selections) = 2

\* C11: running the same query a second time on the same engine yields the
\* same sequence of solutions as the first run, and ends as the first run
\* ended; nothing the first run left behind changes the second.
C11_QueryDeterminism ==
  (run > 1) =>
     LET n == Len(yielded)
         m == Len(prev.sols)
     IN /\ \A i \in 1..n : (i <= m) => (envs[yielded[i]] = prev.sols[i])
        /\ (prev.end \in {"done", "raised"}) => (n <= m)
        /\ (pc = "done") => /\ prev.end # "raised"
                            /\ (prev.end = "done") => (n = m)
        /\ (pc = "raised") => /\ prev.end # "done"
                              /\ (prev.end = "raised") => (n = m)

\* the second run of the type-test query, in which the first run bound X in
\* its own environment, is exhausted after the same single solution
C11_Witness ==
  /\ run = 2 /\ pc = "done" /\ prev.end = "done"
  /\ scen.name = "types" /\ Len(yielded) = 1 /\ Len(prev.sols) = 1
  /\ Len(dispatched) = 4

\* the evaluation an arithmetic builtin makes of its operands ends in one of
\* the errors it catches: is/2 evaluates its right side, a comparison its
\* left side and then its right side
EvaluationError(goal, b) ==
  IF goal.functor = "is" THEN evaluate(goal.args[2], b).why = "error"
  ELSE LET l == evaluate(goal.args[1], b) IN
       \/ l.why = "error"
       \/ l.ok /\ evaluate(goal.args[2], b).why = "error"

\* the query X is 1/0
IsOneByZero ==
  <<Compound("is", <<QX, Compound("/", <<Number(1), Number(0)>>)>>)>>

\* C12: when the evaluation of a side by is/2 or by one of the six
\* comparisons is an error (zero divisor, unbound variable, atom that is not
\* evaluable, unknown functor or wrong arity), the builtin yields nothing and
\* leaves the environment and the trail as they were, and no exception
\* reaches the consumer; the query X is 1/0 ends without a solution.
C12_ArithmeticErrorsFail ==
  /\ \A n \in 1..Len(dispatched) :
        LET d == dispatched[n] IN
        (d.via = "builtin" /\ PredKeyOf(d.goal) \in ArithBuiltins
           /\ EvaluationError(d.goal, d.pre))
          => /\ d.out = "none"
             /\ d.post = d.pre /\ d.posttrail = d.pretrail
             /\ pc # "raised"
  /\ (scen.goals = IsOneByZero) => (yielded = <<>> /\ pc # "raised")

\* the query X is 1/0 on an engine with the arithmetic builtins: is/2 was
\* called, yielded nothing, and the search ended
C12_Witness ==
  /\ scen.goals = IsOneByZero
  /\ pc = "done" /\ yielded = <<>>
  /\ Len(dispatched) = 1 /\ dispatched[1].via = "builtin"
  /\ dispatched[1].out = "none"

\* C13: the query X = f(X) yields exactly one solution, X bound to f(X),
\* when occurs_check is off, and no solution when it is on.
C13_CyclicQuery ==
  (scen.name = "cyclic") =>
     /\ pc # "raised"
     /\ Len(yielded) <= 1
     /\ (pc = "done") => (Len(yielded) = IF occurs_check THEN 0 ELSE 1)
     /\ \A i \in 1..Len(yielded) :
           /\ ~occurs_check
           /\ DOMAIN envs[yielded[i]] = {QX.id}
           /\ envs[yielded[i]][QX.id] = Compound("f", <<QX>>)

\* X = f(X) was solved once with occurs_check off, and the solution binds X
\* to a term that contains X
C13_Witness ==
  /\ scen.name = "cyclic" /\ pc = "done" /\ ~occurs_check
  /\ Len(yielded) = 1 /\ ~Acyclic(envs[yielded[1]])

\* C14: \=/2 yields the caller's environment once exactly when unifying its
\* arguments under that environment, with the engine's occurs_check, is
\* false, and yields nothing when it is true; the caller's bindings and trail
\* are after the call what they were before it.
C14_NotEqualFrame ==
  \A n \in 1..Len(dispatched) :
     LET d == dispatched[n] IN
     (d.via = "builtin" /\ PredKeyOf(d.goal) = <<"\\=", 2>>)
       => LET r == unify(d.goal.args[1], d.goal.args[2], d.pre, <<>>, occurs_check)
          IN /\ (d.out = "yield") <=> (r.st = "false")
             /\ (r.st = "true") => (d.out = "none")
             /\ d.post = d.pre
             /\ d.posttrail = d.pretrail

\* g(X, a) \= g(b, c) yielded although the attempt bound X before it failed,
\* and Y \= a yielded nothing
C14_Witness ==
  /\ scen.name = "noteqvar" /\ pc = "done" /\ Len(dispatched) = 2
  /\ dispatched[1].out = "yield" /\ dispatched[2].out = "none"
  /\ Len(yielded) = 0

\* C15: nothing of the search runs before the first pull; the search moves
\* only between a pull and the next yield or the end, one solution per pull;
\* once the consumer has stopped, no clause is tried and no builtin is called.
C15_PullDriven ==
  [][ /\ (pc = "ready") => (stack = <<>> /\ selections = <<>> /\ dispatched = <<>>
                              /\ yielded = <<>>)
      /\ (pc # "run") => /\ Len(selections') <= Len(selections)
                         /\ Len(dispatched') <= Len(dispatched)
                         /\ Len(yielded') <= Len(yielded)
                         /\ stack' = stack \/ pc \in {"ready", "done", "raised", "abandoned"}
      /\ (Len(yielded') > Len(yielded))
            => (pc' = "suspended" /\ Len(yielded') = Len(yielded) + 1)
      /\ (pc = "abandoned") => (pc' # "run") ]_vars

\* the consumer stopped after the first solution of parent(bob, X) while a
\* candidate clause was still untried
C15_Witness ==
  /\ scen.name = "parent" /\ pc = "abandoned" /\ Len(yielded) = 1
  /\ stack # <<>> /\ stack[1].cands # <<>>
  /\ Len(selections) = 1

\* the sixteen builtins the core must provide
MandatoryBuiltins ==
  { <<"true", 0>>, <<"fail", 0>>, <<"=", 2>>, <<"\\=", 2>>, <<"var", 1>>,
    <<"nonvar", 1>>, <<"atom", 1>>, <<"number", 1>>, <<"compound", 1>>,
    <<"is", 2>>, <<"=:=", 2>>, <<"=\\=", 2>>, <<"<", 2>>, <<"=<", 2>>,
    <<">", 2>>, <<">=", 2>> }

\* C16: on an engine set up by main.initialize_engine every mandatory builtin
\* is registered, and a goal of one of them, such as is(X, 1+2), is called as
\* a builtin and never looked up in the knowledge base.
C16_MandatoryBuiltinsRegistered ==
  (registry = initialize_engine) =>
     /\ \A key \in MandatoryBuiltins : key \in registry
     /\ \A n \in 1..Len(dispatched) :
           (PredKeyOf(dispatched[n].goal) \in MandatoryBuiltins)
             => (dispatched[n].via = "builtin")

\* C17: whenever the resolver selects the goal !, it is called as a builtin,
\* yields once and leaves the environment and the trail unchanged, so the
\* query c(Z) over q(a). q(b). c(X) :- q(X), !. has its two solutions.
C17_CutStubSucceeds ==
  /\ \A n \in 1..Len(dispatched) :
        LET d == dispatched[n] IN
        (PredKeyOf(d.goal) = <<"!", 0>>)
          => /\ d.via = "builtin" /\ d.out = "yield"
             /\ d.post = d.pre /\ d.posttrail = d.pretrail
  /\ (scen.name = "cut" /\ pc = "done") => (Len(yielded) = 2)
\* the tokens of the query is(Y, 2^3^2)
PowerQueryText ==
  IsQueryText(<<Num(<<"2">>), Punct("^"), Num(<<"3">>), Punct("^"), Num(<<"2">>)>>)

\* C18: the text 2^3^2 is read as ^(2, ^(3, 2)), so the query Y is 2^3^2
\* yields Y = 512.
C18_PowerRightAssociative ==
  (atext = PowerQueryText /\ apc # "text") =>
     /\ apc # "syntax_error"
     /\ agoal.args[2] =
          Compound("^", <<Number(2), Compound("^", <<Number(3), Number(2)>>)>>)
     /\ (apc \in {"is", "eq", "end"})
           => /\ ares.is.out = "yield"
              /\ ares.is.env[agoal.args[1].id] = Number(512)

\* C19: for a ground term t and either occurs_check setting, unify(t, t) on an
\* empty environment and an empty trail returns true and leaves both empty.
C19_GroundRoundTrip ==
  (/\ ulast.op = "unify" /\ ulast.t1 = ulast.t2 /\ VarsOf(ulast.t1) = {}
   /\ ulast.pre = EmptyBindings /\ ulast.pretrail = <<>>)
    => /\ ulast.st = "true"
       /\ uenv = EmptyBindings
       /\ utrail = <<>>

\* the ground term g(f(a), f(1)) was unified with itself under occurs_check
C19_Witness ==
  /\ ulast.op = "unify" /\ uocc /\ ucalls = 1
  /\ ulast.t1 = Compound("g", <<Compound("f", <<Atom("a")>>), Compound("f", <<Number(1)>>)>>)
  /\ ulast.t2 = ulast.t1
  /\ ulast.st = "true" /\ uenv = EmptyBindings /\ utrail = <<>>

\* C20: for a ground expression E over integers with + - * // mod and unary
\* minus, X is E yields iff E =:= E yields; when they do, X =:= E holds in the
\* environment X is E yielded; when E is not evaluable both yield nothing.
C20_ArithmeticAgreement ==
  (atext = <<>> /\ apc \in {"eq", "end"}) =>
     /\ ares.is.out \in {"yield", "none"}
     /\ ares.eq.out \in {"yield", "none"}
     /\ (ares.is.out = "yield") <=> (ares.eq.out = "yield")
     /\ (apc = "end") => (ares.chk.out = "yield")
     /\ (ares.is.out = "yield")
           => (DOMAIN ares.is.env = {QX.id} /\ isNumber(ares.is.env[QX.id]))
     /\ (~evaluate(agoal.args[2], EmptyBindings).ok)
           => (ares.is.out = "none" /\ ares.eq.out = "none")

\* X is -3 mod (0 + 2) bound X to 1, and X =:= -3 mod (0 + 2) held
C20_Witness ==
  /\ atext = <<>> /\ apc = "end"
  /\ agoal.args[2] = Compound("mod", <<Number(0 - 3),
                                        Compound("+", <<Number(0), Number(2)>>)>>)
  /\ ares.is.env[QX.id] = Number(1)
  /\ ares.eq.out = "yield" /\ ares.chk.out = "yield"

\* X is 2 // (0 * 2) and 2 // (0 * 2) =:= 2 // (0 * 2) both yielded nothing
C20_WitnessZeroDivisor ==
  /\ atext = <<>> /\ apc = "eq"
  /\ agoal.args[2] = Compound("//", <<Number(2), Compound("*", <<Number(0), Number(2)>>)>>)
  /\ ares.is.out = "none" /\ ares.eq.out = "none"


-----------------------------------------------------------------------------
(* Type tests                                                               *)

TypeTests == {"var", "nonvar", "atom", "number", "compound"}

\* what the type test named f answers for a dereferenced term
TypeHolds(f, t) ==
  CASE f = "var" -> isVariable(t)
    [] f = "nonvar" -> ~isVariable(t)
    [] f = "atom" -> isAtom(t)
    [] f = "number" -> isNumber(t)
    [] f = "compound" -> isCompound(t)

\* C21: var(X), X=5, nonvar(X), number(X) yields exactly one solution, X = 5,
\* and atom(5) yields none; every type test answers for its argument
\* dereferenced in the environment left by the goals to its left (in the
\* first query var(X) is asked of the empty environment, although X = 5 is to
\* its right) and leaves that environment as it found it
C21_TypeTestsSeeLeftBindings ==
  /\ \A n \in 1..Len(dispatched) :
       LET d == dispatched[n] IN
       (d.via = "builtin" /\ d.goal.functor \in TypeTests /\ arity(d.goal) = 1) =>
         /\ d.out = IF TypeHolds(d.goal.functor, deref(d.goal.args[1], d.pre))
                    THEN "yield" ELSE "none"
         /\ d.post = d.pre
  /\ scen.name = "types" =>
       /\ Len(yielded) <= 1
       /\ \A i \in 1..Len(yielded) : Solution(i, QX) = Number(5)
       /\ pc = "done" => Len(yielded) = 1
       /\ dispatched # <<>> =>
            dispatched[1].goal.functor = "var" /\ dispatched[1].pre = EmptyBindings
       /\ Len(dispatched) >= 3 =>
            dispatched[3].goal.functor = "nonvar" /\ dispatched[3].pre = EnvSet(EmptyBindings, QX, Number(5))
  /\ scen.name = "atom5" => yielded = <<>>

C21_Witness ==
  /\ scen.name = "types" /\ pc = "done" /\ Len(yielded) = 1
  /\ Len(dispatched) = 4 /\ dispatched[4].out = "yield"

-----------------------------------------------------------------------------
(* Identity of variables                                                    *)

\* the ids a unify call newly bound
NewlyBound == DOMAIN uenv \ DOMAIN ulast.pre

\* C22: a variable is its id, whatever its name: a unify call changes
\* Env.get of no variable but the ones it bound (X with id 3 stays unbound
\* when X with id 1 is bound), extract_variables keeps one variable for every
\* id that occurs in the term, and rename_variables gives different ids to
\* different ids and the same id to the same id
C22_IdentityById ==
  /\ (ulast.op = "unify") =>
       /\ \A v \in {UX, UY, UX3} :
            v.id \notin NewlyBound => EnvGet(uenv, v) = EnvGet(ulast.pre, v)
       /\ (ulast.t1 = UX /\ ulast.t2 = UX3 /\ ulast.pre = EmptyBindings) =>
            uenv = EnvSet(EmptyBindings, UX, UX3)
  /\ (ulast.op = "collect") =>
       /\ {v.id : v \in ulast.vars} = VarsOf(ulast.t1)
       /\ Cardinality(ulast.vars) = Cardinality(VarsOf(ulast.t1))
       /\ Cardinality(VarsOf(ulast.t2)) = Cardinality(VarsOf(ulast.t1))
       /\ VarsOf(ulast.t2) \cap VarsOf(ulast.t1) = {}

\* what holds of the code: unify, Env.get, Env.set and rename_variables go by
\* the id; extract_variables keeps one variable for every name
IdentityByIdButExtract ==
  /\ (ulast.op = "unify") =>
       /\ \A v \in {UX, UY, UX3} :
            v.id \notin NewlyBound => EnvGet(uenv, v) = EnvGet(ulast.pre, v)
       /\ (ulast.t1 = UX /\ ulast.t2 = UX3 /\ ulast.pre = EmptyBindings) =>
            uenv = EnvSet(EmptyBindings, UX, UX3)
  /\ (ulast.op = "collect") =>
       /\ Cardinality(VarsOf(ulast.t2)) = Cardinality(VarsOf(ulast.t1))
       /\ VarsOf(ulast.t2) \cap VarsOf(ulast.t1) = {}
       /\ {v.name : v \in ulast.vars} = {v.name : v \in extract_variables(ulast.t1)}
       /\ Cardinality(ulast.vars) = Cardinality({v.name : v \in ulast.vars})

-----------------------------------------------------------------------------
(* Order of the search                                                      *)

\* a is before b in the lexicographic order of the candidates chosen
LexLess(a, b) ==
  \E k \in 1..Len(a) :
     /\ k <= Len(b) /\ a[k] < b[k]
     /\ \A j \in 1..(k - 1) : a[j] = b[j]

\* the first n elements of a sequence
Prefix(s, n) == SubSeq(s, 1, n)

\* the solutions of s(X), t(Y) in the order of depth-first search
OrderSolutions ==
  << <<Number(1), Atom("a")>>, <<Number(1), Atom("b")>>,
     <<Number(2), Atom("a")>>, <<Number(2), Atom("b")>> >>

\* C23: solutions come in the lexicographic order of the candidates chosen
\* (everything through an earlier candidate of a goal before anything
\* through a later one); a frame in its loop over the candidates has the
\* candidates of its leftmost goal left, in the order they were offered, and
\* the frame it called resolves the body of the clause tried last followed
\* by the goals after the selected one; a frame in a builtin has called it
\* for its leftmost goal and the frame it called resolves the goals after it
C23_DepthFirstLeftToRight ==
  /\ \A i \in 1..Len(derivations) : \A j \in 1..Len(derivations) :
        i < j => LexLess(derivations[i], derivations[j])
  /\ \A f \in 1..Len(stack) :
        LET fr == stack[f] IN
        /\ fr.mode = "clauses" =>
             LET all == get_candidates(kb, Head(fr.goals))
                 tried == Len(all) - Len(fr.cands)
             IN /\ fr.cands = SubSeq(all, tried + 1, Len(all))
                /\ f < Len(stack) =>
                     /\ tried >= 1
                     /\ stack[f + 1].goals = all[tried].body \o Tail(fr.goals)
        /\ (fr.mode = "builtin" /\ f < Len(stack)) =>
             stack[f + 1].goals = Tail(fr.goals)
  /\ scen.name = "order" =>
       /\ Len(yielded) <= 4
       /\ [i \in 1..Len(yielded) |-> <<Solution(i, QX), Solution(i, QY)>>]
            = Prefix(OrderSolutions, Len(yielded))
       /\ pc = "done" => Len(yielded) = 4

\* all four solutions of s(X), t(Y) were yielded, the last through the
\* second candidate of both p and t
C23_Witness ==
  /\ scen.name = "order" /\ pc = "done" /\ Len(yielded) = 4
  /\ derivations[4] = <<1, 2, 2>>

-----------------------------------------------------------------------------
(* Isolation of the branches                                                *)

\* C24: the head of every candidate is unified in a copy of the environment
\* the frame had when it selected the goal: the environment copied for the
\* n-th selection is the one logged when the goal was looked up, and the
\* environment of a frame in its loop over the candidates is still that one,
\* whatever the earlier candidates and the builtins below them bound.  For
\* g(X, b) the candidates g(a, c), g(Y, b) :- Y = d and g(e, b) all start
\* with X unbound and the solutions are d and e
C24_BranchIsolation ==
  /\ \A n \in 1..Len(selections) :
        LET sel == selections[n] IN
        /\ sel.lookup \in 1..Len(dispatched)
        /\ dispatched[sel.lookup].via = "kb"
        /\ sel.base = dispatched[sel.lookup].pre
  /\ \A f \in 1..Len(stack) :
        stack[f].mode = "clauses" =>
          envs[stack[f].env] = dispatched[stack[f].lookup].pre
  /\ scen.name = "branches" =>
       /\ \A n \in 1..Len(selections) : selections[n].base = EmptyBindings
       /\ pc = "done" =>
            [i \in 1..Len(yielded) |-> Solution(i, QX)] = <<Atom("d"), Atom("e")>>

\* the three candidates of g(X, b) were tried: the head of the first failed
\* after binding X, the second succeeded and a builtin of its body bound Y
\* in place, and the third started from the empty environment
C24_Witness ==
  /\ scen.name = "branches" /\ pc = "done" /\ Len(selections) = 3
  /\ selections[1].st = "false" /\ envs[selections[1].env] # selections[1].base
  /\ selections[2].st = "true" /\ 1 \in DOMAIN envs[selections[2].env]
  /\ selections[3].base = EmptyBindings /\ selections[3].st = "true"

-----------------------------------------------------------------------------
(* Yielded environments                                                     *)

\* C25: an environment that has been yielded is an object of its own, the
\* environment of no frame, and no step of the search (the pulls of further
\* solutions included) adds, removes or changes a binding in it
C25_YieldedSnapshots ==
  [][/\ \A i \in 1..Len(yielded) :
          i <= Len(yielded') =>
             /\ yielded'[i] = yielded[i]
             /\ envs'[yielded[i]] = envs[yielded[i]]
     /\ \A i \in 1..Len(yielded') : \A f \in 1..Len(stack') :
          stack'[f].env # yielded'[i]]_vars

\* two solutions were pulled after the first and the search went on to its
\* end; the first environment differs from the later ones
C25_Witness ==
  /\ pc = "done" /\ Len(yielded) >= 3
  /\ envs[yielded[1]] # envs[yielded[2]]
  /\ envs[yielded[1]] # envs[yielded[3]]

-----------------------------------------------------------------------------
(* Dispatch of builtins                                                     *)

\* C26: a selected goal whose functor and arity are registered is resolved
\* by the builtin and no clause of that functor and arity is ever tried; the
\* goals after it are resolved in the environment the builtin yielded.  With
\* the clauses var(a) and a = b in the knowledge base, X = a, var(X) binds X
\* and then fails
C26_BuiltinDispatchFirst ==
  /\ \A n \in 1..Len(dispatched) :
        PredKeyOf(dispatched[n].goal) \in registry => dispatched[n].via = "builtin"
  /\ \A n \in 1..Len(selections) :
        PredKeyOf(selections[n].clause.head) \notin registry
  /\ \A f \in 1..Len(stack) :
        (stack[f].mode = "builtin" /\ f < Len(stack)) =>
           /\ stack[f + 1].env = stack[f].env
           /\ PredKeyOf(Head(stack[f].goals)) \in registry
  /\ scen.name = "shadow" =>
       /\ yielded = <<>> /\ selections = <<>>
       /\ Len(dispatched) >= 2 =>
            dispatched[2].pre = EnvSet(EmptyBindings, QX, Atom("a"))

\* both goals of X = a, var(X) went to their builtins although the knowledge
\* base has a clause for each
C26_Witness ==
  /\ scen.name = "shadow" /\ pc = "done" /\ Len(dispatched) = 2
  /\ dispatched[1].out = "yield" /\ dispatched[2].out = "none"
  /\ get_candidates(kb, dispatched[1].goal) # <<>>
  /\ get_candidates(kb, dispatched[2].goal) # <<>>

-----------------------------------------------------------------------------
(* What a unify call does to its environment and trail                      *)

\* the compound term cut down to its first n arguments
PrefixTerm(t, n) == Compound(t.functor, SubSeq(t.args, 1, n))

\* the environment and trail once the argument pairs before the first one
\* that does not unify have been unified
BeforeFirstFailure(t1, t2, b, st, occ) ==
  LET k == CHOOSE n \in 1..Len(t1.args) :
               /\ unify(PrefixTerm(t1, n), PrefixTerm(t2, n), b, st, occ).st # "true"
               /\ unify(PrefixTerm(t1, n - 1), PrefixTerm(t2, n - 1), b, st, occ).st = "true"
  IN unify(PrefixTerm(t1, k - 1), PrefixTerm(t2, k - 1), b, st, occ)

\* the part of the trail a unify call pushed
Pushed == SubSeq(utrail, Len(ulast.pretrail) + 1, Len(utrail))

\* C27: a unify call, whatever it returns, keeps every binding the
\* environment had, only adds to the end of the trail, and pushes exactly the
\* ids it newly bound, once each and in the order it bound them (X before Y
\* for g(X, Y) against g(a, b)); when it returns false on two compound terms
\* of one functor and arity, the bindings and trail entries made for the
\* argument pairs before the first failing one are still there
C27_UnifyBindsAndTrails ==
  (ulast.op = "unify") =>
     /\ \A id \in DOMAIN ulast.pre : id \in DOMAIN uenv /\ uenv[id] = ulast.pre[id]
     /\ Len(utrail) >= Len(ulast.pretrail)
     /\ SubSeq(utrail, 1, Len(ulast.pretrail)) = ulast.pretrail
     /\ {Pushed[i] : i \in 1..Len(Pushed)} = DOMAIN uenv \ DOMAIN ulast.pre
     /\ Cardinality(DOMAIN uenv \ DOMAIN ulast.pre) = Len(Pushed)
     /\ (/\ ulast.t1 = Compound("g", <<UX, UY>>)
         /\ ulast.t2 = Compound("g", <<Atom("a"), Atom("b")>>)
         /\ ulast.pre = EmptyBindings) => Pushed = <<1, 2>>
     /\ (/\ ulast.st = "false" /\ isCompound(ulast.t1) /\ isCompound(ulast.t2)
         /\ ulast.t1.functor = ulast.t2.functor
         /\ arity(ulast.t1) = arity(ulast.t2)) =>
          LET r == BeforeFirstFailure(ulast.t1, ulast.t2, ulast.pre,
                                      ulast.pretrail, uocc)
          IN /\ \A id \in DOMAIN r.env : id \in DOMAIN uenv /\ uenv[id] = r.env[id]
             /\ SubSeq(utrail, 1, Len(r.trail)) = r.trail

\* a call that returned false on an environment that had bindings, after
\* binding a variable for an earlier argument pair
C27_Witness ==
  /\ ulast.op = "unify" /\ ulast.st = "false"
  /\ ulast.pre # EmptyBindings /\ uenv # ulast.pre
  /\ isCompound(ulast.t1) /\ isCompound(ulast.t2)
  /\ ulast.t1.functor = ulast.t2.functor /\ arity(ulast.t1) = arity(ulast.t2)
  /\ BeforeFirstFailure(ulast.t1, ulast.t2, ulast.pre, ulast.pretrail, uocc).env
       # ulast.pre

-----------------------------------------------------------------------------
(* Completeness of the index                                                *)

\* goals whose first argument is a variable, an atom, a compound or a
\* number, and goals of predicates without clauses
IndexGoals ==
  { Compound("p", <<IW, Number(1)>>), Compound("p", <<IW, IV>>),
    Compound("p", <<Atom("a"), IW>>), Compound("p", <<Atom("b"), Number(1)>>),
    Compound("p", <<Atom("c"), Number(1)>>),
    Compound("p", <<Compound("f", <<IW>>), Number(1)>>),
    Compound("p", <<Number(7), IW>>), Compound("q", <<IW, Number(1)>>),
    Compound("p", <<Atom("a")>>), Compound("r", <<Atom("a"), Number(1)>>) }

\* current environments: W unbound, or bound to an atom, a compound, a
\* number or another variable
IndexEnvs ==
  { EmptyBindings, EnvSet(EmptyBindings, IW, Atom("a")),
    EnvSet(EmptyBindings, IW, Compound("f", <<Atom("a")>>)),
    EnvSet(EmptyBindings, IW, Number(7)), EnvSet(EmptyBindings, IW, IV) }

\* how many times c is in the sequence
Count(seq, c) == Cardinality({i \in 1..Len(seq) : seq[i] = c})

\* C28: for every goal and current environment, get_candidates returns only
\* clauses of the goal's functor and arity, none more often than it was
\* added, and every clause whose head unifies with the goal under that
\* environment as often as it was added, also when the goal's first
\* argument is a variable bound to an atom or a compound; a predicate
\* without clauses has no candidates
C28_IndexCompleteness ==
  \A g \in IndexGoals : \A b \in IndexEnvs : \A occ \in BOOLEAN :
     LET cands == get_candidates(kb, g)
         all == ClausesOf(kb, PredKeyOf(g))
     IN /\ \A i \in 1..Len(cands) :
             /\ PredKeyOf(cands[i].head) = PredKeyOf(g)
             /\ Count(cands, cands[i]) <= Count(all, cands[i])
        /\ \A i \in 1..Len(all) :
             unify(g, all[i].head, b, <<>>, occ).st = "true" =>
                Count(cands, all[i]) = Count(all, all[i])
        /\ all = <<>> => cands = <<>>

\* a store with clauses for the atoms a and b and a clause with a variable
\* first argument: the goal p(W, 1) with W bound to a gets all three, the
\* goal p(a, W) the two whose heads unify with it
C28_Witness ==
  /\ kbmode = "index" /\ NumClauses(kb) = 3
  /\ Len(get_candidates(kb, Compound("p", <<IW, Number(1)>>))) = 3
  /\ Len(get_candidates(kb, Compound("p", <<Atom("a"), IW>>))) = 2
  /\ \E i \in 1..3 :
        unify(Compound("p", <<IW, Number(1)>>), ClausesOf(kb, PKey)[i].head,
              EnvSet(EmptyBindings, IW, Atom("a")), <<>>, FALSE).st = "false"
  /\ \E i \in 1..3 : isVariable(ClausesOf(kb, PKey)[i].head.args[1])

-----------------------------------------------------------------------------
(* Chains of variables                                                      *)

\* where the chain of variable bindings from term t has come after at most
\* n steps
RECURSIVE ChainEnd(_, _, _)
ChainEnd(t, b, n) ==
  IF n = 0 \/ ~isVariable(t) \/ t.id \notin DOMAIN b THEN t
  ELSE ChainEnd(b[t.id], b, n - 1)

\* the chain from t ends: at a term that is no variable or at an unbound
\* variable
ChainEnds(t, b) ==
  LET e == ChainEnd(t, b, Cardinality(DOMAIN b)) IN
  ~isVariable(e) \/ e.id \notin DOMAIN b

\* C29: in every environment the unify calls produce, with the occurs check
\* on or off, no id is bound to the variable of that id, every chain of
\* variable bindings ends after at most as many steps as there are bindings,
\* and deref returns the end of the chain: a term that is no variable, or an
\* unbound variable
C29_NoVariableCycle ==
  /\ \A id \in DOMAIN uenv : ~(isVariable(uenv[id]) /\ uenv[id].id = id)
  /\ \A id \in DOMAIN uenv : ChainEnds(uenv[id], uenv)
  /\ \A t \in UTerms \cup {UX3} :
        /\ deref(t, uenv) = ChainEnd(t, uenv, Cardinality(DOMAIN uenv))
        /\ ~isVariable(deref(t, uenv)) \/ deref(t, uenv).id \notin DOMAIN uenv

\* X was bound to Y and unify(Y, X) then returned true without binding
\* anything: both sides dereference to the unbound Y
C29_Witness ==
  /\ ulast.op = "unify" /\ ulast.st = "true" /\ uenv = ulast.pre
  /\ ulast.t1 = UY /\ ulast.t2 = UX
  /\ uenv = EnvSet(EmptyBindings, UX, UY)
  /\ deref(UX, uenv) = UY

-----------------------------------------------------------------------------
(* The search that does not end                                             *)

\* C30 as stated: with p(X) :- p(X), the query p(a) yields nothing, is never
\* exhausted and never stops selecting the clause.
C30_SearchNeverStops ==
  scen.name = "loop" => /\ yielded = <<>>
                        /\ pc \notin {"done", "raised"}

\* C30 amended: the query p(a) yields nothing and is never exhausted; every
\* selection is of the one clause and succeeds, one activation deeper each
\* time, and the search stops only when the activations have used up the
\* recursion limit, with a RecursionError
C30_SearchStopsOnlyAtRecursionLimit ==
  scen.name = "loop" =>
     /\ yielded = <<>>
     /\ pc # "done"
     /\ \A n \in 1..Len(selections) :
          /\ selections[n].clause = scen.kb[1]
          /\ selections[n].st = "true" /\ selections[n].rank = 1
     /\ pc = "run" => Len(stack) \in {Len(selections) + 1, Len(selections)}
     /\ pc = "raised" => Len(selections) = MaxDepth - 1

\* the clause was selected until the recursion limit was reached and the
\* query ended in a RecursionError
C30_Witness ==
  /\ scen.name = "loop" /\ pc = "raised" /\ yielded = <<>>
  /\ Len(selections) = MaxDepth - 1

====
